---- MODULE Spec2Model ----
(***************************************************************************)
(* Model of the summarization orchestrator of Brevity-AI                   *)
(* (Backend/app/services/summarizer.py, class OptimizedTextSummarizer)     *)
(* together with the artifact store it reads and writes (the files under   *)
(* outputs/) and the cleaning collaborator that produces the cleaned-text  *)
(* artifact (Backend/app/services/cleaner.py).                             *)
(*                                                                         *)
(* Text.  A string is modelled as the sequence of its whitespace-separated *)
(* tokens; " ".join(xs) is concatenation of the token sequences, so the    *)
(* sentence boundaries are lost by a join exactly as in the code.  Token 0 *)
(* is the period ".", which the vectorizer's token pattern never keeps.    *)
(*                                                                         *)
(* Numbers.  Floats are fixed-point integers, Scale units to 1.  The       *)
(* TF-IDF weights are modelled on the term counts (idf weight 1), with the *)
(* vectorizer's l2 row normalisation, so cosine similarity is exact up to  *)
(* the fixed-point resolution.  A ratio is an integer number of tenths.    *)
(*                                                                         *)
(* Scheduling.  The orchestrator's methods are coroutines on one event     *)
(* loop: a call runs without interruption from its start, or from the      *)
(* completion of the worker task it awaits, to its next await on           *)
(* run_in_executor or to its end.  Each action below is one such segment.  *)
(***************************************************************************)
EXTENDS Integers, Sequences, FiniteSets, TLC

VARIABLES
    TORCH_AVAILABLE,        \* summarizer.py:19-25, fixed at import
    cleaning,               \* outputs/<doc>_cleaning_metadata.json
    extractive,             \* outputs/<doc>_extractive_summary{.txt,_metadata.json}
    abstractive,            \* outputs/<doc>_abstractive_summary{.txt,_metadata.json}
    hybrid,                 \* outputs/<doc>_hybrid_summary{.txt,_metadata.json}
    formatted,              \* outputs/<doc>_formatted_summary.json
    similarity_cache,       \* self._similarity_cache
    summarization_pipeline, \* self._summarization_pipeline
    abstractive_model,      \* self.abstractive_model / _abstractive_tokenizer
    calls,                  \* the coroutines: position, arguments and locals
    cleans,                 \* number of runs of the cleaning collaborator
    probe                   \* a helper function under test: its input, its output

vars == <<TORCH_AVAILABLE, cleaning, extractive, abstractive, hybrid,
          formatted, similarity_cache, summarization_pipeline,
          abstractive_model, calls, cleans, probe>>

-----------------------------------------------------------------------------
(* Bounds of the model *)

MaxSents == 2
MaxCalls == 2
MaxCleans == 1
MaxPieces == 3
MaxLines == 2
Scale == 1000
FineScale == 10000000
MaxRequests == 5

(* Program constants *)

max_iter == 100
max_workers == 4
DampingNum == 85
DampingDen == 100
chunk_size == 1000
fallback_chunk_size == 1024
MinChunkChars == 50
RatioDen == 10

-----------------------------------------------------------------------------
(* Text *)

\* the tokens: the period, a long and a short word, the word "Page", a line
\* break, an e-mail address, a digit, the heading "Education", a capitalised
\* word that is no known heading, and the empty string a removal leaves
\* between two blanks
Period == 0
PageWord == 3
Newline == 4
Email == 5
Digit == 6
Education == 7
Capitalised == 8
Gap == 9
Words == 0..9

\* the tokens TfidfVectorizer's token pattern keeps: words of two or more
\* letters or digits
Terms == {1, 2, PageWord, Education, Capitalised}
Docs == {"doc"}
Calls == 1..MaxCalls

Min(a, b) == IF a < b THEN a ELSE b
Max(a, b) == IF a > b THEN a ELSE b
Abs(a) == IF a < 0 THEN -a ELSE a

SeqsUpTo(S, n) == UNION {[1..m -> S] : m \in 0..n}
Sentences == {<<1>>, <<2>>, <<1, 2>>, <<0>>}
Corpora == SeqsUpTo(Sentences, MaxSents)

\* " ".join(list of strings)
RECURSIVE Join(_)
Join(ss) == IF ss = <<>> THEN <<>> ELSE Head(ss) \o Join(Tail(ss))

\* the number of characters of a token
WordLen(w) == CASE w = 0 -> 1
                [] w = 1 -> 60
                [] w \in {Newline, Gap} -> 0
                [] w = Digit -> 1
                [] w \in {PageWord, Email} -> 4
                [] w \in {Education, Capitalised} -> 9
                [] OTHER -> 3

\* occurrences of term w in sentence s
Count(s, w) == Cardinality({i \in 1..Len(s) : s[i] = w})

RECURSIVE SumOver(_, _)
SumOver(f, S) ==
    IF S = {} THEN 0
    ELSE LET x == CHOOSE y \in S : TRUE IN f[x] + SumOver(f, S \ {x})

\* the characters of the tokens t[lo] to t[hi]
RECURSIVE TokenChars(_, _, _)
TokenChars(t, lo, hi) ==
    IF lo = hi THEN WordLen(t[lo])
    ELSE LET mid == (lo + hi) \div 2
         IN TokenChars(t, lo, mid) + TokenChars(t, mid + 1, hi)

\* len(string): the characters of the tokens and one blank between two
CharLen(t) ==
    IF t = <<>> THEN 0 ELSE TokenChars(t, 1, Len(t)) + Len(t) - 1

\* len(line.split()): a period is part of the word before it
WordCount(line) ==
    Cardinality({i \in 1..Len(line) :
        /\ line[i] \notin {Gap, Newline}
        /\ ~(line[i] = Period /\ i > 1 /\ line[i - 1] \notin {Gap, Newline, Period})})

\* the list with the elements of f, each computed once
List(f) == f \o <<>>

RECURSIVE SumSeq(_)
SumSeq(s) == IF s = <<>> THEN 0 ELSE Head(s) + SumSeq(Tail(s))

RECURSIVE ISqrtBetween(_, _, _)
ISqrtBetween(x, lo, hi) ==
    IF lo >= hi THEN lo
    ELSE LET mid == (lo + hi + 1) \div 2
         IN IF mid * mid <= x THEN ISqrtBetween(x, mid, hi)
            ELSE ISqrtBetween(x, lo, mid - 1)

\* floor of the square root
ISqrt(x) == ISqrtBetween(x, 0, 46340)

-----------------------------------------------------------------------------
(* Sentence vectorizer, similarity graph builder, rankers *)

\* TfidfVectorizer.fit: the vocabulary of the corpus (the period is no token)
TermsOf(s) == {s[i] : i \in 1..Len(s)} \cap Terms
Vocabulary(ss) == UNION {TermsOf(ss[i]) : i \in 1..Len(ss)}

Dot(a, b) == SumOver([w \in TermsOf(a) |-> Count(a, w) * Count(b, w)],
                     TermsOf(a))

\* cosine_similarity of two l2-normalised rows; 0 for a zero vector
Cosine(a, b) ==
    IF Dot(a, a) = 0 \/ Dot(b, b) = 0 THEN 0
    ELSE ISqrt((Dot(a, b) * Dot(a, b) * Scale * Scale) \div (Dot(a, a) * Dot(b, b)))

\* compute_similarity: cosine similarities, each row divided by its sum + 1e-8
compute_similarity(ss) ==
    LET n == Len(ss)
        sim == List([i \in 1..n |-> List([j \in 1..n |-> Cosine(ss[i], ss[j])])])
        rowsum == List([i \in 1..n |-> SumSeq(sim[i])])
    IN List([i \in 1..n |->
          List([j \in 1..n |->
              IF rowsum[i] = 0 THEN 0 ELSE (sim[i][j] * Scale) \div rowsum[i]])])

\* a closeness check that never holds
never_close(a, b, unit) == FALSE

\* np.allclose(a, b, atol=1e-6) with numpy's default rtol=1e-5, on numbers
\* of unit units to 1: |a - b| <= atol + rtol * |b|
AllClose(a, b, unit) ==
    \A i \in 1..Len(a) :
        Abs(a[i] - b[i]) <= (unit + 10 * Abs(b[i])) \div 1000000

\* an update whose constant term is not divided by n
new_scores_unnormalised(m, scores, unit, munit) ==
    LET n == Len(m)
    IN List([j \in 1..n |->
           ((DampingDen - DampingNum) * unit) \div DampingDen
           + (DampingNum * SumSeq([i \in 1..n |-> m[i][j] * scores[i]]))
                \div (DampingDen * munit)])

\* new_scores = (1 - damping) / n + damping * similarity_matrix.T.dot(scores),
\* the scores in units of 1/unit and the matrix in units of 1/munit
new_scores(m, scores, unit, munit) ==
    LET n == Len(m)
    IN List([j \in 1..n |->
           ((DampingDen - DampingNum) * unit) \div (DampingDen * n)
           + (DampingNum * SumSeq([i \in 1..n |-> m[i][j] * scores[i]]))
                \div (DampingDen * munit)])

RECURSIVE PagerankLoop(_, _, _)
PagerankLoop(m, scores, iter) ==
    IF iter >= max_iter THEN scores
    ELSE LET next_scores == new_scores(m, scores, Scale, Scale)
         IN IF AllClose(scores, next_scores, Scale) THEN scores
            ELSE PagerankLoop(m, next_scores, iter + 1)

\* _pagerank(similarity_matrix)
pagerank(m) ==
    IF Len(m) = 0 THEN <<>>
    ELSE PagerankLoop(m, List([i \in 1..Len(m) |-> Scale \div Len(m)]), 0)

\* compute_tfidf: the sum of the sentence's (l2-normalised) term weights
tfidf_scores(ss) ==
    List([i \in 1..Len(ss) |->
        LET total == SumOver([w \in TermsOf(ss[i]) |-> Count(ss[i], w)],
                             TermsOf(ss[i]))
        IN IF total = 0 THEN 0
           ELSE ISqrt((total * total * Scale * Scale) \div Dot(ss[i], ss[i]))])

-----------------------------------------------------------------------------
(* Selection and truncation *)

\* list.sort(key=score, reverse=True) on the indices 1..n: a stable sort,
\* an element goes behind every element whose score is not smaller
RECURSIVE InsertDesc(_, _, _)
InsertDesc(sorted, i, scores) ==
    IF sorted = <<>> THEN <<i>>
    ELSE IF scores[Head(sorted)] >= scores[i]
         THEN <<Head(sorted)>> \o InsertDesc(Tail(sorted), i, scores)
         ELSE <<i>> \o sorted

RECURSIVE SortDescFrom(_, _, _, _)
SortDescFrom(sorted, i, n, scores) ==
    IF i > n THEN sorted
    ELSE SortDescFrom(InsertDesc(sorted, i, scores), i + 1, n, scores)

sort_desc(scores, n) == SortDescFrom(<<>>, 1, n, scores)

\* a selection that takes the sentences in document order
select_in_document_order(scores, n, num_sentences) ==
    [i \in 1..Min(num_sentences, n) |-> i] \o <<>>

\* sentence_scores[:num_sentences], as indices into the corpus
select(scores, n, num_sentences) ==
    SubSeq(sort_desc(scores, n), 1, Min(num_sentences, n))

\* int(x / RatioDen): truncation toward zero
Trunc(x) == IF x >= 0 THEN x \div RatioDen ELSE -((-x) \div RatioDen)

\* round(x / RatioDen) for x >= 0: to the nearest integer, a half to the even
\* neighbour
Round(x) ==
    LET q == x \div RatioDen
        rem == x % RatioDen
    IN IF 2 * rem > RatioDen \/ (2 * rem = RatioDen /\ q % 2 = 1) THEN q + 1 ELSE q

\* a sentence count that rounds where the program truncates
num_sentences_rounded(n, ratio) == Max(1, Round(n * ratio))

\* num_sentences = max(1, int(original_sentences * summary_ratio))
num_sentences_of(n, ratio) == Max(1, Trunc(n * ratio))

-----------------------------------------------------------------------------
(* Artifact store records and the state of a call *)

\* an absent file, an unset result
NoFile == [exists |-> FALSE]
NoResult == [returned |-> FALSE]
NoProbe == [kind |-> "none"]
None == "None"

Algorithms == {"textrank", "tfidf", "lsa", "bogus"}
RatioNums == {0, 9, 10, 15}
LsaScoreValues == 1..2
default_model == "facebook/bart-large-cnn"

\* what cleaner.clean_text persists: cleaned_text = " ".join(sentences)
CleaningArtifact(corpus) == [cleaned_text |-> Join(corpus), sentences |-> corpus]

IdleCall ==
    [op |-> None, pc |-> "idle", filename |-> None,
     summary_ratio |-> 0, algorithm |-> None, use_cache |-> FALSE,
     use_pipeline |-> FALSE, model |-> None,
     sentences |-> <<>>, num_sentences |-> 0,
     cleaning_data |-> NoFile, original_cleaned_text |-> <<>>,
     text |-> <<>>, chunks |-> <<>>, chunk_i |-> 0, summaries |-> <<>>,
     result |-> NoResult, error |-> None,
     summary_type |-> None, cleaned_text |-> <<>>, final_abstract |-> <<>>,
     \* history, read by the properties only
     pre |-> NoFile, alone |-> TRUE, ranked |-> FALSE, scores |-> <<>>,
     overrode |-> FALSE, sent |-> <<>>, before |-> NoFile,
     attempts |-> 0, cleanings |-> 0]

\* the mutable state a segment of a call reads and writes
Glob ==
    [cleaning |-> cleaning, extractive |-> extractive,
     abstractive |-> abstractive, hybrid |-> hybrid, formatted |-> formatted,
     similarity_cache |-> similarity_cache,
     summarization_pipeline |-> summarization_pipeline,
     abstractive_model |-> abstractive_model]

\* the persisted artifacts
Persisted ==
    [cleaning |-> cleaning, extractive |-> extractive,
     abstractive |-> abstractive, hybrid |-> hybrid, formatted |-> formatted]

Raise(g, k, e) == [g |-> g, k |-> [k EXCEPT !.pc = "done", !.error = e]]
Return(g, k, r) == [g |-> g, k |-> [k EXCEPT !.pc = "done", !.result = r]]
Suspend(g, k, at) == [g |-> g, k |-> [k EXCEPT !.pc = at]]

-----------------------------------------------------------------------------
(* formatted_hybrid_summary: the scrub and the layout heuristics *)

\* a literal of the program, a text taken from the document
Literal(s) == [literal |-> s, text |-> <<>>]
Text(t) == [literal |-> "", text |-> t]

\* the text "" is the empty list of tokens
Canon(t) == IF t = <<Gap>> THEN <<>> ELSE t

\* the first position from i on that holds no Gap (Len(t) + 1 if none)
RECURSIVE SkipGaps(_, _)
SkipGaps(t, i) ==
    IF i <= Len(t) /\ t[i] = Gap THEN SkipGaps(t, i + 1) ELSE i

\* re.sub(r'Page\s*\d+', '', text, flags=re.IGNORECASE); the marker with
\* dashes around it, which is removed first, is no text of this alphabet
RECURSIVE RemovePages(_, _)
RemovePages(t, i) ==
    IF i > Len(t) THEN <<>>
    ELSE LET j == SkipGaps(t, i + 1)
         IN IF t[i] = PageWord /\ j <= Len(t) /\ t[j] = Digit
            THEN <<Gap>> \o RemovePages(t, j + 1)
            ELSE <<t[i]>> \o RemovePages(t, i + 1)

\* re.sub(r'\S+@\S+', '', text)
RemoveEmails(t) == List([i \in 1..Len(t) |-> IF t[i] = Email THEN Gap ELSE t[i]])

\* the last position of the longest run of digits and blanks from i on
RECURSIVE DigitRunEnd(_, _, _)
DigitRunEnd(t, i, last) ==
    IF i > Len(t) \/ t[i] \notin {Digit, Gap} THEN last
    ELSE DigitRunEnd(t, i + 1, IF t[i] = Digit THEN i ELSE last)

\* re.sub(r'\+?\d[\d\s\-]{7,}\d', '', text): a run of digits and blanks of
\* nine characters or more, from a digit to a digit
PhoneChars == 9
RECURSIVE RemovePhones(_, _)
RemovePhones(t, i) ==
    IF i > Len(t) THEN <<>>
    ELSE LET j == DigitRunEnd(t, i, i)
         IN IF t[i] = Digit /\ CharLen(SubSeq(t, i, j)) >= PhoneChars
            THEN <<Gap>> \o RemovePhones(t, j + 1)
            ELSE <<t[i]>> \o RemovePhones(t, i + 1)

\* Step 0 of formatted_hybrid_summary: page markers, e-mail addresses and
\* telephone numbers are removed, in this order, each in one pass
Scrub(cleaned_text) ==
    Canon(RemovePhones(RemoveEmails(RemovePages(cleaned_text, 1)), 1))

\* str.strip() of a line or sentence: the blanks at its ends go
RECURSIVE Strip(_)
Strip(t) ==
    IF t = <<>> THEN <<>>
    ELSE IF Head(t) \in {Gap, Newline} THEN Strip(Tail(t))
    ELSE IF t[Len(t)] \in {Gap, Newline} THEN Strip(SubSeq(t, 1, Len(t) - 1))
    ELSE t

\* text.split(sep): the pieces between the separator tokens
RECURSIVE SplitOn(_, _, _)
SplitOn(t, sep, piece) ==
    IF t = <<>> THEN <<piece>>
    ELSE IF Head(t) = sep THEN <<piece>> \o SplitOn(Tail(t), sep, <<>>)
    ELSE SplitOn(Tail(t), sep, Append(piece, Head(t)))

\* [x.strip() for x in pieces if x.strip()]
StrippedNonEmpty(pieces) ==
    LET stripped == List([i \in 1..Len(pieces) |-> Strip(pieces[i])])
    IN SelectSeq(stripped, LAMBDA x : x # <<>>)

\* text_utils.split_into_sentences: the sentences end at the periods
RECURSIVE SentencePieces(_, _)
SentencePieces(t, piece) ==
    IF t = <<>> THEN <<piece>>
    ELSE IF Head(t) = Period
         THEN <<Append(piece, Period)>> \o SentencePieces(Tail(t), <<>>)
         ELSE SentencePieces(Tail(t), Append(piece, Head(t)))

split_into_sentences(text) == StrippedNonEmpty(SentencePieces(text, <<>>))

\* " ".join(sents[:n])
JoinFirst(sents, n) == Join(SubSeq(sents, 1, Min(n, Len(sents))))

MinTitleWords == 3
MaxTitleWords == 12

\* Step 3, the title: the first line of 3 to 12 words of a text that is not
\* empty, else the first sentence of the abstract; "Untitled" when there is
\* neither, and when the text is empty
TitleOf(cleaned_text, sentences) ==
    IF cleaned_text = <<>> THEN Literal("Untitled")
    ELSE LET lines == StrippedNonEmpty(SplitOn(cleaned_text, Newline, <<>>))
             fits == {i \in 1..Len(lines) :
                         MinTitleWords <= WordCount(lines[i])
                         /\ WordCount(lines[i]) <= MaxTitleWords}
         IN IF fits # {}
            THEN Text(lines[CHOOSE i \in fits : \A j \in fits : i <= j])
            ELSE IF sentences # <<>> THEN Text(sentences[1])
                 ELSE Literal("Untitled")

\* Step 3, the objective: " ".join(sentences[1:3]) when the abstract has
\* more than one sentence
ObjectiveOf(sentences) ==
    IF Len(sentences) > 1
    THEN Text(Join(SubSeq(sentences, 2, Min(3, Len(sentences)))))
    ELSE Literal("Objective not detected")

\* sentences = [s.strip() for s in final_abstract.split(".") if s.strip()]
AbstractSentences(final_abstract) ==
    StrippedNonEmpty(SplitOn(final_abstract, Period, <<>>))

\* the first position at which the tokens of pat stand in t (0 if none)
Find(t, pat) ==
    LET at == {i \in 1..(Len(t) - Len(pat) + 1) :
                  SubSeq(t, i, i + Len(pat) - 1) = pat}
    IN IF at = {} THEN 0 ELSE CHOOSE i \in at : \A j \in at : i <= j

\* the tokens that begin with a capital letter
Capitals == {PageWord, Education, Capitalised}
MinHeadingChars == 6

\* section_pattern.findall(text): the whole lines that begin with a capital
\* letter and have six characters or more
HeadingLines(text) ==
    SelectSeq(SplitOn(text, Newline, <<>>),
              LAMBDA line : /\ line # <<>>
                            /\ Head(line) \in Capitals
                            /\ CharLen(line) >= MinHeadingChars)

\* the body get_section_wise_summary reads for a heading: what follows the
\* first occurrence of the heading up to the end of that line
BodyOf(text, heading) ==
    LET body_start == Find(text, heading) + Len(heading)
        rest == SubSeq(text, body_start, Len(text))
    IN Strip(SplitOn(rest, Newline, <<>>)[1])

auto_sections == <<"Introduction", "Applications", "Challenges", "Future">>
max_sentences_per_section == 2

\* the fallback of get_section_wise_summary: the sentences are split into
\* four runs of len(sentences) // 4 (at least one) sentences, and each label
\* gets the first two sentences of its run
AutoSections(text) ==
    LET sentences == split_into_sentences(text)
        size == Max(1, Len(sentences) \div 4)
    IN [key \in {Literal(auto_sections[i]) : i \in 1..4} |->
           LET i == CHOOSE i \in 1..4 : Literal(auto_sections[i]) = key
           IN Text(JoinFirst(SubSeq(sentences, Min((i - 1) * size + 1, Len(sentences) + 1),
                                    Min(i * size, Len(sentences))),
                             max_sentences_per_section))]

\* text_utils.get_section_wise_summary on the cleaned text of the artifact:
\* one entry for a blank text, else one entry per heading line, else the
\* four buckets of a quartile split of the sentences
get_section_wise_summary(text) ==
    IF Strip(text) = <<>>
    THEN [key \in {Literal("Full Text")} |-> Literal("No content available")]
    ELSE LET matches == HeadingLines(text)
         IN IF matches # <<>>
            THEN [key \in {Text(Strip(matches[i])) : i \in 1..Len(matches)} |->
                    LET last == CHOOSE i \in 1..Len(matches) :
                                   /\ Text(Strip(matches[i])) = key
                                   /\ \A j \in 1..Len(matches) :
                                         Text(Strip(matches[j])) = key => j <= i
                    IN Text(JoinFirst(split_into_sentences(BodyOf(text, matches[last])),
                                      max_sentences_per_section))]
            ELSE AutoSections(text)

\* the known headings; of "Education", "Projects", "Skills" and "Work
\* Experience" the alphabet holds the first
resume_sections == {Education}

\* Step 4 of formatted_hybrid_summary: under each known heading found in the
\* scrubbed text the first two sentences from the heading on, then every
\* entry of section_summary_raw under a key not yet present
SectionSummaryOf(cleaned_text, section_summary_raw) ==
    LET found == {sec \in resume_sections : Find(cleaned_text, <<sec>>) > 0}
        keys == {Text(<<sec>>) : sec \in found} \cup DOMAIN section_summary_raw
    IN [key \in keys |->
           IF key \in {Text(<<sec>>) : sec \in found}
           THEN LET sec == CHOOSE sec \in found : Text(<<sec>>) = key
                    rest_text == SubSeq(cleaned_text, Find(cleaned_text, <<sec>>),
                                        Len(cleaned_text))
                IN Text(JoinFirst(split_into_sentences(rest_text), 2))
           ELSE section_summary_raw[key]]

-----------------------------------------------------------------------------
(* abstractive_summary and the second half of hybrid_summary *)

\* the external abstractive collaborator: text in, bounded-length text out
Summarize(words) == IF words = <<>> THEN <<>> ELSE <<Head(words)>>

\* text.split(". "): the pieces between periods that are followed by a token
SplitPeriod(text) ==
    LET seps == {i \in 1..(Len(text) - 1) : text[i] = Period}
        n == Cardinality(seps)
        at(k) == IF k = 0 THEN 0
                 ELSE IF k = n + 1 THEN Len(text) + 1
                 ELSE CHOOSE i \in seps : Cardinality({j \in seps : j < i}) = k - 1
    IN List([k \in 1..(n + 1) |-> SubSeq(text, at(k - 1) + 1, at(k) - 1)])

\* the chunking loop: pieces are packed greedily into chunks of at most
\* size tokens; a chunk is its tokens, and the last chunk ends in a period
\* glued to its last token
RECURSIVE PackChunks(_, _, _, _, _)
PackChunks(pieces, i, temp_chunk, chunks, size) ==
    IF i > Len(pieces)
    THEN Append(chunks, [words |-> temp_chunk, glued |-> TRUE])
    ELSE LET sentence == pieces[i]
             added == IF i = Len(pieces) THEN sentence
                      ELSE Append(sentence, Period)
         IN IF WordCount(temp_chunk) + WordCount(sentence) <= size
            THEN PackChunks(pieces, i + 1, temp_chunk \o added, chunks, size)
            ELSE PackChunks(pieces, i + 1, added,
                            Append(chunks, [words |-> temp_chunk, glued |-> FALSE]),
                            size)

Chunks(text, size) == PackChunks(SplitPeriod(text), 1, <<>>, <<>>, size)

\* len(chunk.strip())
ChunkChars(chunk) == CharLen(chunk.words) + (IF chunk.glued THEN 1 ELSE 0)

\* a hybrid tail that writes its record and leaves the override in place
HybridWriteOnly(g, k, hybrid_result) ==
    Return([g EXCEPT !.hybrid[k.filename] = [txt |-> hybrid_result.summary_text,
                                             metadata |-> hybrid_result]],
           k, hybrid_result)

\* hybrid_summary from the restore of the cleaned text to its end
HybridRestoreAndWrite(g, k, hybrid_result) ==
    LET d == k.filename
        restored == [k.cleaning_data EXCEPT !.cleaned_text = k.original_cleaned_text]
        metadata ==
            [summary_text |-> hybrid_result.summary_text,
             original_length |-> CharLen(k.original_cleaned_text),
             summary_length |-> hybrid_result.summary_length,
             compression_ratio |-> hybrid_result.compression_ratio,
             extractive_ratio |-> k.summary_ratio,
             processing_method |-> "optimized_hybrid"]
        g1 == [g EXCEPT !.cleaning[d] = restored,
                        !.hybrid[d] = [txt |-> hybrid_result.summary_text,
                                       metadata |-> metadata]]
    IN Return(g1, k, metadata)

\* abstractive_summary from the computed summary text to its end
AbstractiveWrite(g, k, summary_text) ==
    LET d == k.filename
        original_length == CharLen(k.text)
        summary_length == CharLen(summary_text)
        metadata ==
            [summary_text |-> summary_text,
             original_length |-> original_length,
             summary_length |-> summary_length,
             compression_ratio |->
                 IF original_length > 0
                 THEN [num |-> summary_length, den |-> original_length]
                 ELSE [num |-> 0, den |-> 1],
             model |-> k.model,
             processing_method |-> IF k.use_pipeline THEN "pipeline" ELSE "chunked"]
        g1 == [g EXCEPT !.abstractive[d] = [txt |-> summary_text,
                                            metadata |-> metadata]]
    IN CASE k.op = "hybrid" -> HybridRestoreAndWrite(g1, k, metadata)
         [] k.op = "formatted" ->
              Suspend(g1, [k EXCEPT !.final_abstract = summary_text],
                      "fmt_extractive")
         [] OTHER -> Return(g1, k, metadata)

\* _pipeline_summarize, the loop over the chunks from chunk k.chunk_i on:
\* a chunk of more than MinChunkChars characters is handed to the worker
\* pool and awaited, any other chunk is skipped
RECURSIVE PipelineLoop(_, _)
PipelineLoop(g, k) ==
    IF k.chunk_i > Len(k.chunks)
    THEN AbstractiveWrite(g, k, Join(k.summaries))
    ELSE IF ChunkChars(k.chunks[k.chunk_i]) > MinChunkChars
         THEN Suspend(g, k, "abs_wait")
         ELSE PipelineLoop(g, [k EXCEPT !.chunk_i = @ + 1])

\* _chunked_summarize: every chunk is summarised on the calling thread
ChunkedSummarize(text) ==
    LET chunks == Chunks(text, fallback_chunk_size)
    IN Join(List([i \in 1..Len(chunks) |-> Summarize(chunks[i].words)]))

\* the chunks _chunked_summarize hands to the model: every one of them
ChunkedSent(text) ==
    LET chunks == Chunks(text, fallback_chunk_size)
    IN List([i \in 1..Len(chunks) |-> chunks[i]])

\* a missing dependency answered with an empty summary
TransformersMissingEmpty(g, k) ==
    Return(g, k, [summary_text |-> <<>>, summary_length |-> 0])

\* raise ImportError("PyTorch and transformers are required ...")
TransformersMissing(g, k) == Raise(g, k, "ImportError")

\* pipeline(...) or from_pretrained(...) raises: the model cannot be fetched
LoadFailed(g, k) == Raise(g, k, "OSError")

\* abstractive_summary from its first line to its first await or its end;
\* loadOk: whether the collaborator's model can be loaded when asked for
AbstractiveBegin(g, k, torch, loadOk) ==
    LET d == k.filename IN
    IF ~torch THEN TransformersMissing(g, k)
    ELSE IF g.cleaning[d] = NoFile THEN Raise(g, k, "FileNotFoundError")
    ELSE
      LET text == g.cleaning[d].cleaned_text
          k1 == [k EXCEPT !.text = text]
      IN IF k.use_pipeline
         THEN IF g.summarization_pipeline = None /\ ~loadOk
              THEN LoadFailed(g, k1)
              ELSE LET g1 == IF g.summarization_pipeline = None
                             THEN [g EXCEPT !.summarization_pipeline = k.model]
                             ELSE g
                   IN PipelineLoop(g1, [k1 EXCEPT !.chunks = Chunks(text, chunk_size),
                                                  !.chunk_i = 1,
                                                  !.summaries = <<>>])
         ELSE IF g.abstractive_model = None /\ ~loadOk
              THEN LoadFailed(g, k1)
              ELSE LET g1 == IF g.abstractive_model = None
                             THEN [g EXCEPT !.abstractive_model = k.model]
                             ELSE g
                   IN AbstractiveWrite(g1, [k1 EXCEPT !.sent = ChunkedSent(text)],
                                       ChunkedSummarize(text))

\* a hybrid step that skips the override: its abstractive step reads the
\* full cleaned text
HybridNoOverride(g, k, extractive_result, torch, loadOk) ==
    LET cleaning_data == g.cleaning[k.filename]
    IN AbstractiveBegin(g, [k EXCEPT !.cleaning_data = cleaning_data,
                                     !.original_cleaned_text = cleaning_data.cleaned_text,
                                     !.overrode = TRUE],
                        torch, loadOk)

\* hybrid_summary from the return of its extractive step to the first await
\* of its abstractive step (or to its end): read the artifact, override its
\* cleaned_text with the extractive summary text, call abstractive_summary
HybridOverride(g, k, extractive_result, torch, loadOk) ==
    LET d == k.filename
        cleaning_data == g.cleaning[d]
        k1 == [k EXCEPT !.cleaning_data = cleaning_data,
                        !.original_cleaned_text = cleaning_data.cleaned_text,
                        !.overrode = TRUE]
        g1 == [g EXCEPT !.cleaning[d] =
                   [cleaning_data EXCEPT !.cleaned_text = extractive_result.summary_text]]
    IN AbstractiveBegin(g1, k1, torch, loadOk)

-----------------------------------------------------------------------------
(* extractive_summary *)

\* cache_key = f"textrank_{hash(' '.join(sentences))}": the key is decided
\* by the joined text (the hash is taken to be free of collisions)
cache_key(sentences) == Join(sentences)

\* a store that keeps only the entry it writes
cache_store_evicting(cache, key, similarity_matrix) ==
    [x \in {key} |-> similarity_matrix]

\* a store that writes nothing
cache_store_skipped(cache, key, similarity_matrix) == cache

\* self._similarity_cache[cache_key] = similarity_matrix
cache_store(cache, key, similarity_matrix) ==
    [x \in DOMAIN cache \cup {key} |->
        IF x = key THEN similarity_matrix ELSE cache[x]]

\* formatted_hybrid_summary from the return of its extractive step to its
\* end: title, objective, section summary, the formatted-summary file
FormattedCompile(g, k, extractive_result) ==
    LET d == k.filename
        summary_sentences == extractive_result.summary_sentences
        key_points == List([i \in 1..Len(summary_sentences) |->
                               Strip(summary_sentences[i])])
        sentences == AbstractSentences(k.final_abstract)
    IN IF g.cleaning[d] = NoFile THEN Raise(g, k, "FileNotFoundError")
       ELSE
         LET section_summary_raw ==
                 get_section_wise_summary(g.cleaning[d].cleaned_text)
             formatted_summary ==
                 [title |-> TitleOf(k.cleaned_text, sentences),
                  objective |-> ObjectiveOf(sentences),
                  key_points |-> key_points,
                  section_summary |->
                      SectionSummaryOf(k.cleaned_text, section_summary_raw),
                  final_abstract |-> k.final_abstract,
                  processing_method |-> "optimized_formatted"]
         IN Return([g EXCEPT !.formatted[d] = formatted_summary], k,
                   formatted_summary)

\* extractive_summary from the ranked sentences to its end: the summary text,
\* both files of the record, the return (into hybrid_summary when it called)
ExtractiveWrite(g, k, order, torch, loadOk) ==
    LET d == k.filename
        summary_sentences == List([i \in 1..Len(order) |-> k.sentences[order[i]]])
        summary_text == Join(summary_sentences)
        original_sentences == Len(k.sentences)
        metadata ==
            [summary_text |-> summary_text,
             summary_sentences |-> summary_sentences,
             original_sentences |-> original_sentences,
             compression_ratio |-> [num |-> Len(summary_sentences),
                                    den |-> original_sentences],
             algorithm |-> k.algorithm,
             summary_ratio |-> k.summary_ratio]
        g1 == [g EXCEPT !.extractive[d] = [txt |-> summary_text,
                                           metadata |-> metadata]]
    IN CASE k.op = "hybrid" -> HybridOverride(g1, k, metadata, torch, loadOk)
         [] k.op = "formatted" -> FormattedCompile(g1, k, metadata)
         [] OTHER -> Return(g1, k, metadata)

\* _optimized_textrank_summarize from the similarity matrix on: scores[i] is
\* read for every sentence of the corpus, whatever the size of the matrix
TextrankRank(g, k, similarity_matrix, torch, loadOk) ==
    LET scores == pagerank(similarity_matrix)
        n == Len(k.sentences)
        k1 == [k EXCEPT !.ranked = TRUE, !.scores = scores]
    IN IF Len(scores) < n THEN Raise(g, k1, "IndexError")
       ELSE ExtractiveWrite(g, k1, select(scores, n, k.num_sentences), torch, loadOk)

\* a missing artifact reported as a bad argument
CleanedTextInvalid(g, k) == Raise(g, k, "ValueError")

\* raise FileNotFoundError(f"Cleaned text not found for {filename}")
CleanedTextNotFound(g, k) == Raise(g, k, "FileNotFoundError")

\* a check of the sentence list that lets every list through
any_sentences(sentences) == FALSE

\* if original_sentences == 0:
no_sentences(sentences) == Len(sentences) = 0

\* an unknown algorithm name handed on to a ranker
UnsupportedRanked(g, k) == Suspend(g, [k EXCEPT !.ranked = TRUE], "ext_wait")

\* raise ValueError(f"Unsupported algorithm: {algorithm}")
UnsupportedAlgorithm(g, k) == Raise(g, k, "ValueError")

\* extractive_summary from its first line to its first await or its end
ExtractiveBegin(g, k, torch, loadOk) ==
    LET d == k.filename IN
    IF g.cleaning[d] = NoFile THEN CleanedTextNotFound(g, k)
    ELSE
      LET sentences == g.cleaning[d].sentences
          original_sentences == Len(sentences)
      IN IF no_sentences(sentences) THEN Raise(g, k, "ValueError")
         ELSE
           LET k1 == [k EXCEPT !.sentences = sentences,
                               !.num_sentences =
                                   num_sentences_of(original_sentences, k.summary_ratio)]
           IN CASE k.algorithm = "textrank" ->
                     IF k.use_cache /\ cache_key(sentences) \in DOMAIN g.similarity_cache
                     THEN TextrankRank(g, k1, g.similarity_cache[cache_key(sentences)],
                                       torch, loadOk)
                     ELSE Suspend(g, [k1 EXCEPT !.ranked = TRUE], "ext_wait")
                [] k.algorithm \in {"tfidf", "lsa"} ->
                     Suspend(g, [k1 EXCEPT !.ranked = TRUE], "ext_wait")
                [] OTHER -> UnsupportedAlgorithm(g, k1)

\* extractive_summary from the completion of the worker task it awaits;
\* TfidfVectorizer.fit_transform raises ValueError on an empty vocabulary,
\* TruncatedSVD may reject more components than there are terms (lsaOk) and
\* its randomized solver fixes the topic norms only up to noise (lsa_scores)
ExtractiveResume(g, k, lsa_scores, lsaOk, torch, loadOk) ==
    LET n == Len(k.sentences) IN
    IF Vocabulary(k.sentences) = {} THEN Raise(g, k, "ValueError")
    ELSE CASE k.algorithm = "textrank" ->
                LET similarity_matrix == compute_similarity(k.sentences)
                    key == cache_key(k.sentences)
                    g1 == IF k.use_cache
                          THEN [g EXCEPT !.similarity_cache =
                                   cache_store(@, key, similarity_matrix)]
                          ELSE g
                IN TextrankRank(g1, k, similarity_matrix, torch, loadOk)
           [] k.algorithm = "tfidf" ->
                LET scores == tfidf_scores(k.sentences)
                IN ExtractiveWrite(g, [k EXCEPT !.scores = scores],
                                   select(scores, n, k.num_sentences), torch, loadOk)
           [] OTHER ->
                IF Min(k.num_sentences, n) > Cardinality(Vocabulary(k.sentences))
                   /\ ~lsaOk
                THEN Raise(g, k, "ValueError")
                ELSE ExtractiveWrite(g, [k EXCEPT !.scores = lsa_scores],
                                     select(lsa_scores, n, k.num_sentences),
                                     torch, loadOk)

-----------------------------------------------------------------------------
(* formatted_hybrid_summary and get_summary *)

\* Step 0 of formatted_hybrid_summary: when the artifact exists its
\* cleaned_text is scrubbed and written back; the call keeps the scrubbed
\* text (the empty text when there is no artifact)
FormattedScrub(g, k) ==
    LET d == k.filename IN
    IF g.cleaning[d] = NoFile THEN [g |-> g, k |-> [k EXCEPT !.cleaned_text = <<>>]]
    ELSE LET cleaned_text == Scrub(g.cleaning[d].cleaned_text)
         IN [g |-> [g EXCEPT !.cleaning[d].cleaned_text = cleaned_text],
             k |-> [k EXCEPT !.cleaned_text = cleaned_text]]

\* formatted_hybrid_summary from the return of its abstractive step to the
\* first await of its extractive step (or to its end); a segment of any
\* other call ends where it ended
FormattedContinue(r, torch, loadOk) ==
    IF r.k.pc = "fmt_extractive"
    THEN ExtractiveBegin(r.g, r.k, torch, loadOk)
    ELSE r

\* formatted_hybrid_summary from its first line to its first await or its
\* end: scrub, then abstractive_summary(filename, use_pipeline=...)
FormattedBegin(g, k, torch, loadOk) ==
    LET r == FormattedScrub(g, k)
    IN FormattedContinue(AbstractiveBegin(r.g, r.k, torch, loadOk), torch, loadOk)

\* the summary types get_summary is asked for
SummaryTypes == {"extractive", "abstractive", "hybrid", "formatted_hybrid"}

\* the file <doc>_<summary_type>_summary_metadata.json: extractive_summary,
\* abstractive_summary and hybrid_summary write theirs, and no operation
\* writes <doc>_formatted_hybrid_summary_metadata.json
metadata_file(g, d, summary_type) ==
    CASE summary_type = "extractive" -> g.extractive[d]
      [] summary_type = "abstractive" -> g.abstractive[d]
      [] summary_type = "hybrid" -> g.hybrid[d]
      [] OTHER -> NoFile

\* an absent summary answered with an empty record
SummaryNotFoundEmpty(g, k) == Return(g, k, [summary_text |-> <<>>])

\* raise FileNotFoundError(f"{summary_type.title()} summary not found ...")
SummaryNotFound(g, k) == Raise(g, k, "FileNotFoundError")

\* get_summary(filename, summary_type)
get_summary(g, k) ==
    LET file == metadata_file(g, k.filename, k.summary_type)
    IN IF file = NoFile THEN SummaryNotFound(g, k)
       ELSE Return(g, k, file.metadata)

-----------------------------------------------------------------------------
(* The state machine *)

Active(c) == calls[c].pc \in {"ext_wait", "abs_wait"}

\* a segment of call c ends in state r; a call that starts while another is
\* in flight is not alone, and neither is the one in flight
Commit(c, r, starting) ==
    /\ cleaning' = r.g.cleaning
    /\ extractive' = r.g.extractive
    /\ abstractive' = r.g.abstractive
    /\ hybrid' = r.g.hybrid
    /\ formatted' = r.g.formatted
    /\ similarity_cache' = r.g.similarity_cache
    /\ summarization_pipeline' = r.g.summarization_pipeline
    /\ abstractive_model' = r.g.abstractive_model
    /\ calls' = [x \in Calls |->
                   IF x = c
                   THEN [r.k EXCEPT !.alone = IF starting
                                              THEN \A y \in Calls \ {c} : ~Active(y)
                                              ELSE @]
                   ELSE IF starting /\ Active(x)
                        THEN [calls[x] EXCEPT !.alone = FALSE]
                        ELSE calls[x]]
    /\ UNCHANGED <<TORCH_AVAILABLE, cleans, probe>>

CanStart(c) ==
    /\ calls[c].pc = "idle"
    /\ \A x \in Calls : x < c => calls[x].pc # "idle"

\* a fresh orchestrator on an output directory in which each document has
\* no cleaned-text artifact or the artifact of one of the corpora
InitOn(corpora) ==
    /\ TORCH_AVAILABLE \in BOOLEAN
    /\ cleaning \in [Docs -> {NoFile} \cup {CleaningArtifact(c) : c \in corpora}]
    /\ extractive = [d \in Docs |-> NoFile]
    /\ abstractive = [d \in Docs |-> NoFile]
    /\ hybrid = [d \in Docs |-> NoFile]
    /\ formatted = [d \in Docs |-> NoFile]
    /\ similarity_cache = <<>>
    /\ summarization_pipeline = None
    /\ abstractive_model = None
    /\ calls = [c \in Calls |-> IdleCall]
    /\ cleans = 0
    /\ probe = NoProbe

Init == InitOn(Corpora)

\* POST /summarize/extractive: summarizer.extractive_summary(...)
StartExtractive(c, d, ratio, algorithm, use_cache) ==
    /\ CanStart(c)
    /\ Commit(c, ExtractiveBegin(Glob,
                  [IdleCall EXCEPT !.op = "extractive", !.filename = d,
                                   !.summary_ratio = ratio,
                                   !.algorithm = algorithm,
                                   !.use_cache = use_cache,
                                   !.pre = cleaning[d],
                                   !.before = Persisted],
                  TORCH_AVAILABLE, TRUE), TRUE)

\* POST /summarize/hybrid: summarizer.hybrid_summary(...), whose extractive
\* step is extractive_summary(filename, extractive_ratio, "textrank")
StartHybrid(c, d, ratio, use_pipeline, loadOk) ==
    /\ CanStart(c)
    /\ Commit(c, ExtractiveBegin(Glob,
                  [IdleCall EXCEPT !.op = "hybrid", !.filename = d,
                                   !.summary_ratio = ratio,
                                   !.algorithm = "textrank",
                                   !.use_cache = TRUE,
                                   !.use_pipeline = use_pipeline,
                                   !.model = default_model,
                                   !.pre = cleaning[d],
                                   !.before = Persisted],
                  TORCH_AVAILABLE, loadOk), TRUE)

\* POST /summarize/abstractive: summarizer.abstractive_summary(filename,
\* max_length, min_length, model, use_pipeline)
StartAbstractiveModel(c, d, model, use_pipeline, loadOk) ==
    /\ CanStart(c)
    /\ Commit(c, AbstractiveBegin(Glob,
                  [IdleCall EXCEPT !.op = "abstractive", !.filename = d,
                                   !.use_pipeline = use_pipeline,
                                   !.model = model,
                                   !.pre = cleaning[d],
                                   !.before = Persisted],
                  TORCH_AVAILABLE, loadOk), TRUE)

\* the same request with the default of its model parameter
StartAbstractive(c, d, use_pipeline, loadOk) ==
    StartAbstractiveModel(c, d, default_model, use_pipeline, loadOk)

\* POST /summarize/formatted-hybrid: summarizer.formatted_hybrid_summary(...)
StartFormatted(c, d, ratio, use_pipeline, loadOk) ==
    /\ CanStart(c)
    /\ Commit(c, FormattedBegin(Glob,
                  [IdleCall EXCEPT !.op = "formatted", !.filename = d,
                                   !.summary_ratio = ratio,
                                   !.algorithm = "textrank",
                                   !.use_cache = TRUE,
                                   !.use_pipeline = use_pipeline,
                                   !.model = default_model,
                                   !.pre = cleaning[d],
                                   !.before = Persisted],
                  TORCH_AVAILABLE, loadOk), TRUE)

\* GET /summarize/{filename}: summarizer.get_summary(filename, summary_type)
GetSummary(c, d, summary_type) ==
    /\ CanStart(c)
    /\ Commit(c, get_summary(Glob,
                  [IdleCall EXCEPT !.op = "get_summary", !.filename = d,
                                   !.summary_type = summary_type,
                                   !.pre = cleaning[d],
                                   !.before = Persisted]), TRUE)

\* a failed worker task that leaves the summaries made so far in the
\* flat-text file of the abstractive record
WorkerFailedPartial(g, k) ==
    Raise([g EXCEPT !.abstractive[k.filename] =
               [txt |-> Join(k.summaries), metadata |-> NoFile]],
          k, "RuntimeError")

\* the exception of the pipeline's worker task leaves _pipeline_summarize
\* and abstractive_summary at the await
WorkerFailed(g, k) == Raise(g, k, "RuntimeError")

\* the worker task of an extractive step completes and the call goes on
ResumeExtractive(c, lsa_scores, lsaOk, loadOk) ==
    /\ calls[c].pc = "ext_wait"
    /\ Commit(c, ExtractiveResume(Glob, calls[c], lsa_scores, lsaOk,
                                  TORCH_AVAILABLE, loadOk), FALSE)

\* the pipeline's worker task for the current chunk completes (runOk) or
\* raises, and the call goes on with the next chunk
ResumeAbstractive(c, runOk) ==
    /\ calls[c].pc = "abs_wait"
    /\ LET k == calls[c]
       IN Commit(c, IF ~runOk THEN WorkerFailed(Glob, k)
                    ELSE FormattedContinue(
                           PipelineLoop(Glob,
                             [k EXCEPT !.summaries =
                                           Append(@, Summarize(k.chunks[k.chunk_i].words)),
                                       !.sent = Append(@, k.chunks[k.chunk_i]),
                                       !.chunk_i = @ + 1]),
                           TORCH_AVAILABLE, TRUE), FALSE)

\* cleaner.clean_text(filename): the cleaning collaborator (re)writes the
\* cleaned-text artifact of a document
Clean(d, corpus) ==
    /\ cleans < MaxCleans
    /\ cleans' = cleans + 1
    /\ cleaning' = [cleaning EXCEPT ![d] = CleaningArtifact(corpus)]
    /\ calls' = [x \in Calls |->
                   IF Active(x) /\ calls[x].filename = d
                   THEN [calls[x] EXCEPT !.alone = FALSE] ELSE calls[x]]
    /\ UNCHANGED <<TORCH_AVAILABLE, extractive, abstractive, hybrid, formatted,
                   similarity_cache, summarization_pipeline, abstractive_model,
                   probe>>

Quiet == \A x \in Calls : ~Active(x)

\* the inputs a step does not read are not enumerated
CacheFlags(algorithm) == IF algorithm = "textrank" THEN BOOLEAN ELSE {TRUE}
LsaInputs(c) == IF calls[c].algorithm \in {"textrank", "tfidf"} THEN {<<>>}
                ELSE [1..Len(calls[c].sentences) -> LsaScoreValues]
LsaOutcomes(c) == IF calls[c].algorithm \in {"textrank", "tfidf"} THEN {TRUE}
                  ELSE BOOLEAN
LoadOutcomes(c) == IF calls[c].op = "hybrid" THEN BOOLEAN ELSE {TRUE}
ValidRatioNums == {r \in RatioNums : 0 < r /\ r <= RatioDen}

\* extractive and hybrid requests for a document, in flight together on one
\* orchestrator
Next ==
    \/ \E c \in Calls :
          /\ CanStart(c)
          /\ \E d \in Docs, ratio \in RatioNums, algorithm \in Algorithms :
                \E use_cache \in CacheFlags(algorithm) :
                    StartExtractive(c, d, ratio, algorithm, use_cache)
    \/ \E c \in Calls :
          /\ CanStart(c)
          /\ \E d \in Docs, ratio \in ValidRatioNums,
                use_pipeline \in BOOLEAN, loadOk \in BOOLEAN :
                StartHybrid(c, d, ratio, use_pipeline, loadOk)
    \/ \E c \in Calls :
          /\ calls[c].pc = "ext_wait"
          /\ \E lsa_scores \in LsaInputs(c), lsaOk \in LsaOutcomes(c),
                loadOk \in LoadOutcomes(c) :
                ResumeExtractive(c, lsa_scores, lsaOk, loadOk)
    \/ \E c \in Calls :
          /\ calls[c].pc = "abs_wait"
          /\ \E runOk \in BOOLEAN : ResumeAbstractive(c, runOk)

Spec == Init /\ [][Next]_vars

\* extractive requests with any arguments, one at a time, on a document that
\* the cleaning collaborator may clean again between two of them (a cleaning
\* before the first request leads to a state Init covers, one after the last
\* request is read by no call)
NextExt ==
    \/ \E c \in Calls :
          /\ CanStart(c) /\ Quiet
          /\ \E d \in Docs, ratio \in RatioNums, algorithm \in Algorithms :
                \E use_cache \in CacheFlags(algorithm) :
                    StartExtractive(c, d, ratio, algorithm, use_cache)
    \/ \E c \in Calls :
          /\ calls[c].pc = "ext_wait"
          /\ \E lsa_scores \in LsaInputs(c), lsaOk \in LsaOutcomes(c) :
                ResumeExtractive(c, lsa_scores, lsaOk, TRUE)
    \/ /\ Quiet
       /\ \E x \in Calls : calls[x].pc = "done"
       /\ \E x \in Calls : calls[x].pc = "idle"
       /\ \E d \in Docs, corpus \in Corpora : Clean(d, corpus)

InitExt == Init /\ TORCH_AVAILABLE = TRUE

SpecExt == InitExt /\ [][NextExt]_vars

\* the operation a summarize endpoint awaits, from its first line to its
\* first await or its end
OperationBegin(g, k, torch, loadOk) ==
    CASE k.op = "abstractive" -> AbstractiveBegin(g, k, torch, loadOk)
      [] k.op = "formatted" -> FormattedBegin(g, k, torch, loadOk)
      [] OTHER -> ExtractiveBegin(g, k, torch, loadOk)

\* cleaner.clean_text finds no extraction record: its FileNotFoundError
\* leaves the handler of the endpoint through the outer except clause
CleanFailed(g, k) ==
    Raise(g, [k EXCEPT !.cleanings = 1], "FileNotFoundError")

\* the body of a summarize endpoint up to the first await of the operation:
\* the operation is awaited; on FileNotFoundError cleaner.clean_text is
\* awaited (cleaned: the artifact it writes, NoFile when it raises) and the
\* operation is awaited again with the same arguments
Routed(g, k, torch, loadOk, cleaned) ==
    LET first == OperationBegin(g, [k EXCEPT !.attempts = 1], torch, loadOk)
    IN IF first.k.pc = "done" /\ first.k.error = "FileNotFoundError"
       THEN IF cleaned = NoFile THEN CleanFailed(first.g, first.k)
            ELSE OperationBegin([first.g EXCEPT !.cleaning[k.filename] = cleaned],
                                [k EXCEPT !.attempts = 2, !.cleanings = 1],
                                torch, loadOk)
       ELSE first

\* raise HTTPException(status_code=500, ...) for every exception, else
\* JSONResponse(status_code=200, ...)
status_code(k) == IF k.result # NoResult THEN 200 ELSE 500

\* POST /summarize/extractive/{filename}
RequestExtractive(c, d, ratio, algorithm, use_cache, cleaned) ==
    /\ CanStart(c)
    /\ Commit(c, Routed(Glob,
                  [IdleCall EXCEPT !.op = "extractive", !.filename = d,
                                   !.summary_ratio = ratio,
                                   !.algorithm = algorithm,
                                   !.use_cache = use_cache,
                                   !.pre = cleaning[d],
                                   !.before = Persisted],
                  TORCH_AVAILABLE, TRUE, cleaned), TRUE)

\* POST /summarize/abstractive/{filename}
RequestAbstractive(c, d, use_pipeline, loadOk, cleaned) ==
    /\ CanStart(c)
    /\ Commit(c, Routed(Glob,
                  [IdleCall EXCEPT !.op = "abstractive", !.filename = d,
                                   !.use_pipeline = use_pipeline,
                                   !.model = default_model,
                                   !.pre = cleaning[d],
                                   !.before = Persisted],
                  TORCH_AVAILABLE, loadOk, cleaned), TRUE)

\* POST /summarize/hybrid/{filename}
RequestHybrid(c, d, ratio, use_pipeline, loadOk, cleaned) ==
    /\ CanStart(c)
    /\ Commit(c, Routed(Glob,
                  [IdleCall EXCEPT !.op = "hybrid", !.filename = d,
                                   !.summary_ratio = ratio,
                                   !.algorithm = "textrank",
                                   !.use_cache = TRUE,
                                   !.use_pipeline = use_pipeline,
                                   !.model = default_model,
                                   !.pre = cleaning[d],
                                   !.before = Persisted],
                  TORCH_AVAILABLE, loadOk, cleaned), TRUE)

\* POST /summarize/formatted-hybrid/{filename}
RequestFormatted(c, d, ratio, use_pipeline, loadOk, cleaned) ==
    /\ CanStart(c)
    /\ Commit(c, Routed(Glob,
                  [IdleCall EXCEPT !.op = "formatted", !.filename = d,
                                   !.summary_ratio = ratio,
                                   !.algorithm = "textrank",
                                   !.use_cache = TRUE,
                                   !.use_pipeline = use_pipeline,
                                   !.model = default_model,
                                   !.pre = cleaning[d],
                                   !.before = Persisted],
                  TORCH_AVAILABLE, loadOk, cleaned), TRUE)

\* the documents of the specification of all operations: a long sentence, a
\* short one, one that reads "Page <address> <digit>"
OpsSentences == {<<1>>, <<2>>, <<PageWord, Email, Digit>>}
OpsCorpora == SeqsUpTo(OpsSentences, MaxSents)
OpsAlgorithms == {"textrank", "tfidf", "bogus"}
OpsRatioNums == {9}

\* the five operations of the orchestrator, one call at a time, with a
\* deterministic ranker; the collaborator may fail to load or to run
NextOps ==
    \/ \E c \in Calls :
          /\ CanStart(c) /\ Quiet
          /\ \E d \in Docs, ratio \in OpsRatioNums, algorithm \in OpsAlgorithms :
                \E use_cache \in CacheFlags(algorithm) :
                    StartExtractive(c, d, ratio, algorithm, use_cache)
    \/ \E c \in Calls :
          /\ CanStart(c) /\ Quiet
          /\ \E d \in Docs, use_pipeline \in BOOLEAN, loadOk \in BOOLEAN :
                StartAbstractive(c, d, use_pipeline, loadOk)
    \/ \E c \in Calls :
          /\ CanStart(c) /\ Quiet
          /\ \E d \in Docs, ratio \in OpsRatioNums,
                use_pipeline \in BOOLEAN, loadOk \in BOOLEAN :
                StartHybrid(c, d, ratio, use_pipeline, loadOk)
    \/ \E c \in Calls :
          /\ CanStart(c) /\ Quiet
          /\ \E d \in Docs, ratio \in OpsRatioNums,
                use_pipeline \in BOOLEAN, loadOk \in BOOLEAN :
                StartFormatted(c, d, ratio, use_pipeline, loadOk)
    \/ \E c \in Calls :
          /\ CanStart(c) /\ Quiet
          /\ \E d \in Docs, summary_type \in SummaryTypes :
                GetSummary(c, d, summary_type)
    \/ \E c \in Calls :
          /\ calls[c].pc = "ext_wait"
          /\ \E loadOk \in LoadOutcomes(c) :
                ResumeExtractive(c, <<>>, TRUE, loadOk)
    \/ \E c \in Calls :
          /\ calls[c].pc = "abs_wait"
          /\ \E runOk \in BOOLEAN : ResumeAbstractive(c, runOk)

InitOps == InitOn(OpsCorpora)

SpecOps == InitOps /\ [][NextOps]_vars

\* an orchestrator with no artifact and no call, for the specifications of
\* the text functions
Blank ==
    /\ TORCH_AVAILABLE = TRUE
    /\ cleaning = [d \in Docs |-> NoFile]
    /\ extractive = [d \in Docs |-> NoFile]
    /\ abstractive = [d \in Docs |-> NoFile]
    /\ hybrid = [d \in Docs |-> NoFile]
    /\ formatted = [d \in Docs |-> NoFile]
    /\ similarity_cache = <<>>
    /\ summarization_pipeline = None
    /\ abstractive_model = None
    /\ calls = [c \in Calls |-> IdleCall]
    /\ cleans = 0

\* the texts the chunking is applied to: up to MaxPieces sentences, each of
\* 1, 600, 1001 or 1025 words and a period
SentenceWords == {1, 600, 1001, 1025}
SentenceOf(n) == Append([i \in 1..n |-> 2], Period)
ChunkTexts ==
    {Join(List([i \in 1..Len(ns) |-> SentenceOf(ns[i])])) :
        ns \in SeqsUpTo(SentenceWords, MaxPieces)}

\* the chunks _pipeline_summarize hands to the pipeline: those of more than
\* 50 characters
PipelineSent(text) ==
    SelectSeq(Chunks(text, chunk_size),
              LAMBDA chunk : ChunkChars(chunk) > MinChunkChars)

\* _pipeline_summarize(text) with a collaborator that answers every chunk
PipelineProbe ==
    /\ probe.kind = "text"
    /\ LET sent == PipelineSent(probe.text)
       IN probe' = [kind |-> "pipeline", text |-> probe.text, size |-> chunk_size,
                    chunks |-> Chunks(probe.text, chunk_size), sent |-> sent,
                    summary |-> Join(List([i \in 1..Len(sent) |->
                                              Summarize(sent[i].words)]))]
    /\ UNCHANGED <<TORCH_AVAILABLE, cleaning, extractive, abstractive, hybrid,
                   formatted, similarity_cache, summarization_pipeline,
                   abstractive_model, calls, cleans>>

\* _chunked_summarize(text)
FallbackProbe ==
    /\ probe.kind = "text"
    /\ probe' = [kind |-> "fallback", text |-> probe.text,
                 size |-> fallback_chunk_size,
                 chunks |-> Chunks(probe.text, fallback_chunk_size),
                 sent |-> ChunkedSent(probe.text),
                 summary |-> ChunkedSummarize(probe.text)]
    /\ UNCHANGED <<TORCH_AVAILABLE, cleaning, extractive, abstractive, hybrid,
                   formatted, similarity_cache, summarization_pipeline,
                   abstractive_model, calls, cleans>>

InitChunk ==
    /\ Blank
    /\ probe \in {[kind |-> "text", text |-> t, size |-> 0, chunks |-> <<>>,
                   sent |-> <<>>, summary |-> <<>>] : t \in ChunkTexts}

NextChunk == PipelineProbe \/ FallbackProbe

\* the two chunking functions of abstractive_summary, applied to a text
SpecChunk == InitChunk /\ [][NextChunk]_vars

\* the lines of the scrubbed texts the layout heuristics are applied to: one
\* word, three words, thirteen words, a capitalised word and two sentences,
\* the heading "Education" inside three sentences, blanks only
LayoutLines ==
    {<<2>>, <<2, 2, 2>>, [i \in 1..(MaxTitleWords + 1) |-> 2],
     <<Capitalised, 2, Period, 2, Period>>,
     <<2, Education, 2, Period, 2, Period, 2, Period>>,
     <<Gap, Gap>>}

\* "\n".join(lines)
RECURSIVE JoinLines(_)
JoinLines(lines) ==
    IF lines = <<>> THEN <<>>
    ELSE IF Len(lines) = 1 THEN lines[1]
    ELSE lines[1] \o <<Newline>> \o JoinLines(Tail(lines))

LayoutTexts == {JoinLines(ls) : ls \in SeqsUpTo(LayoutLines, MaxLines)}

\* the abstracts: none, one sentence, two, four
LayoutAbstracts ==
    {<<>>, <<1>>, <<1, Period, 2>>, <<1, Period, 2, Period, 2, Period, 2>>}

\* Steps 3 and 4 of formatted_hybrid_summary on a scrubbed text, which is
\* also the cleaned_text of the artifact, and an abstract
LayoutProbe ==
    /\ probe.kind = "input"
    /\ LET sentences == AbstractSentences(probe.final_abstract)
       IN probe' = [probe EXCEPT
                       !.kind = "layout",
                       !.title = TitleOf(probe.cleaned_text, sentences),
                       !.objective = ObjectiveOf(sentences),
                       !.section_summary =
                           SectionSummaryOf(probe.cleaned_text,
                               get_section_wise_summary(probe.cleaned_text))]
    /\ UNCHANGED <<TORCH_AVAILABLE, cleaning, extractive, abstractive, hybrid,
                   formatted, similarity_cache, summarization_pipeline,
                   abstractive_model, calls, cleans>>

InitLayout ==
    /\ Blank
    /\ probe \in {[kind |-> "input", cleaned_text |-> t, final_abstract |-> a,
                    title |-> Literal(""), objective |-> Literal(""),
                    section_summary |-> <<>>] :
                      t \in LayoutTexts, a \in LayoutAbstracts}

NextLayout == LayoutProbe

\* the layout heuristics of formatted_hybrid_summary, applied to a text and
\* an abstract
SpecLayout == InitLayout /\ [][NextLayout]_vars

\* the matrices the graph ranker is applied to, in halves: every row is a
\* distribution over the sentences or, for a sentence without terms, zero
RankMatrices ==
    UNION {[1..n -> {r \in [1..n -> 0..2] : SumSeq(r) \in {0, 2}}] :
              n \in 1..MaxSents}

\* the ranker's inputs: those matrices with scores of FineScale units to 1,
\* and the 1 x 1 matrix 5/4, on which the scores grow, with scores of Scale
\* units to 1
RankInputs ==
    {[m |-> m, munit |-> 2, unit |-> FineScale] : m \in RankMatrices}
        \cup {[m |-> <<<<5>>>>, munit |-> 4, unit |-> Scale]}

\* n = similarity_matrix.shape[0]; scores = np.ones(n) / n
InitRank ==
    /\ Blank
    /\ probe \in {[kind |-> "pagerank", m |-> x.m, munit |-> x.munit,
                    unit |-> x.unit,
                    scores |-> List([i \in 1..Len(x.m) |-> x.unit \div Len(x.m)]),
                    new_scores |-> <<>>, iter |-> 0, pc |-> "loop",
                    result |-> <<>>,
                    \* history, read by the properties only
                    prev |-> <<>>, broke |-> FALSE] : x \in RankInputs}

\* one pass of the body of the loop of _pagerank, and the return when the
\* loop is left by its break or after its last pass
PagerankIterate ==
    /\ probe.kind = "pagerank" /\ probe.pc = "loop"
    /\ LET computed == new_scores(probe.m, probe.scores, probe.unit, probe.munit)
       IN probe' =
            IF AllClose(probe.scores, computed, probe.unit)
            THEN [probe EXCEPT !.new_scores = computed, !.iter = @ + 1,
                               !.pc = "done", !.result = probe.scores,
                               !.broke = TRUE]
            ELSE [probe EXCEPT !.new_scores = computed, !.iter = @ + 1,
                               !.prev = probe.scores, !.scores = computed,
                               !.pc = IF probe.iter + 1 = max_iter
                                      THEN "done" ELSE "loop",
                               !.result = IF probe.iter + 1 = max_iter
                                          THEN computed ELSE <<>>]
    /\ UNCHANGED <<TORCH_AVAILABLE, cleaning, extractive, abstractive, hybrid,
                   formatted, similarity_cache, summarization_pipeline,
                   abstractive_model, calls, cleans>>

NextRank == PagerankIterate

\* the graph ranker, applied to a matrix, pass by pass
SpecRank == InitRank /\ [][NextRank]_vars

\* the requests in flight on the one orchestrator of the process
Requests == 1..MaxRequests

IdleRequest ==
    [pc |-> "idle", algorithm |-> "none", use_cache |-> FALSE,
     pool_steps |-> {}, loop_steps |-> {}]

\* the CPU-bound steps inside the function handed to run_in_executor by each
\* algorithm: compute_similarity, compute_tfidf, compute_lsa
task_steps(algorithm) ==
    IF algorithm = "textrank"
    THEN {"vectorization", "similarity_matrix"}
    ELSE {"vectorization", "scores"}

\* self._thread_pool = ThreadPoolExecutor(max_workers=4), with no task, and
\* self._similarity_cache = {}; the cache is the set of its keys, and all
\* requests are for one corpus, so for one key
InitPool ==
    /\ Blank
    /\ probe = [kind |-> "pool", request |-> [r \in Requests |-> IdleRequest],
                work_queue |-> <<>>, running |-> {}, similarity_cache |-> {}]

\* extractive_summary from its start to its first await, on the orchestrating
\* thread: tfidf and lsa hand their whole computation to the pool; textrank
\* hands compute_similarity to the pool unless the matrix is in the cache, and
\* then runs self._pagerank and the sort itself and returns
StartRequest(r, algorithm, use_cache) ==
    /\ probe.kind = "pool"
    /\ probe.request[r].pc = "idle"
    /\ r > 1 => probe.request[r - 1].pc # "idle"
    /\ probe' =
         IF /\ algorithm = "textrank" /\ use_cache
            /\ "textrank_key" \in probe.similarity_cache
         THEN [probe EXCEPT !.request[r] =
                   [pc |-> "returned", algorithm |-> algorithm,
                    use_cache |-> use_cache, pool_steps |-> {},
                    loop_steps |-> {"scores"}]]
         ELSE [probe EXCEPT !.request[r] =
                   [pc |-> "awaiting", algorithm |-> algorithm,
                    use_cache |-> use_cache, pool_steps |-> {},
                    loop_steps |-> {}],
                            !.work_queue = Append(@, r)]
    /\ UNCHANGED <<TORCH_AVAILABLE, cleaning, extractive, abstractive, hybrid,
                   formatted, similarity_cache, summarization_pipeline,
                   abstractive_model, calls, cleans>>

\* a worker thread of the pool takes the oldest task of the queue; the pool
\* has max_workers threads, each running one task at a time
WorkerTakes ==
    /\ probe.kind = "pool"
    /\ probe.work_queue # <<>>
    /\ Cardinality(probe.running) < max_workers
    /\ LET r == Head(probe.work_queue)
       IN probe' = [probe EXCEPT
                      !.work_queue = Tail(@),
                      !.running = @ \cup {r},
                      !.request[r].pc = "running",
                      !.request[r].pool_steps =
                          task_steps(probe.request[r].algorithm)]
    /\ UNCHANGED <<TORCH_AVAILABLE, cleaning, extractive, abstractive, hybrid,
                   formatted, similarity_cache, summarization_pipeline,
                   abstractive_model, calls, cleans>>

\* the task of request r returns: its worker is free and its future is set
WorkerFinishes(r) ==
    /\ probe.kind = "pool"
    /\ r \in probe.running
    /\ probe' = [probe EXCEPT !.running = @ \ {r},
                              !.request[r].pc = "done"]
    /\ UNCHANGED <<TORCH_AVAILABLE, cleaning, extractive, abstractive, hybrid,
                   formatted, similarity_cache, summarization_pipeline,
                   abstractive_model, calls, cleans>>

\* extractive_summary from the completion of its task to its return, on the
\* orchestrating thread: tfidf and lsa return the task's selection; textrank
\* stores the matrix when use_cache, then runs self._pagerank(similarity_matrix)
\* and the sort itself
ResumeRequest(r) ==
    /\ probe.kind = "pool"
    /\ probe.request[r].pc = "done"
    /\ probe' =
         IF probe.request[r].algorithm = "textrank"
         THEN [probe EXCEPT
                 !.request[r].pc = "returned",
                 !.request[r].loop_steps = @ \cup {"scores"},
                 !.similarity_cache =
                     IF probe.request[r].use_cache
                     THEN @ \cup {"textrank_key"} ELSE @]
         ELSE [probe EXCEPT !.request[r].pc = "returned"]
    /\ UNCHANGED <<TORCH_AVAILABLE, cleaning, extractive, abstractive, hybrid,
                   formatted, similarity_cache, summarization_pipeline,
                   abstractive_model, calls, cleans>>

NextPool ==
    \/ \E r \in Requests, algorithm \in {"textrank", "tfidf", "lsa"},
          use_cache \in BOOLEAN :
           /\ algorithm # "textrank" => use_cache
           /\ StartRequest(r, algorithm, use_cache)
    \/ WorkerTakes
    \/ \E r \in Requests : WorkerFinishes(r)
    \/ \E r \in Requests : ResumeRequest(r)

\* extractive_summary requests on one orchestrator: the orchestrating thread
\* and the worker pool
SpecPool == InitPool /\ [][NextPool]_vars

\* what cleaner.clean_text does when an endpoint calls it: it raises, or it
\* writes the artifact of a corpus; no endpoint calls it when the artifact
\* is there
CleanOutcomes(d) ==
    IF cleaning[d] # NoFile THEN {NoFile}
    ELSE {NoFile} \cup {CleaningArtifact(corpus) : corpus \in OpsCorpora}

\* the four summarize endpoints, one request at a time
NextReq ==
    \/ \E c \in Calls :
          /\ CanStart(c) /\ Quiet
          /\ \E d \in Docs, ratio \in OpsRatioNums, algorithm \in OpsAlgorithms :
                \E use_cache \in CacheFlags(algorithm), cleaned \in CleanOutcomes(d) :
                    RequestExtractive(c, d, ratio, algorithm, use_cache, cleaned)
    \/ \E c \in Calls :
          /\ CanStart(c) /\ Quiet
          /\ \E d \in Docs, use_pipeline \in BOOLEAN, loadOk \in BOOLEAN :
                \E cleaned \in CleanOutcomes(d) :
                    RequestAbstractive(c, d, use_pipeline, loadOk, cleaned)
    \/ \E c \in Calls :
          /\ CanStart(c) /\ Quiet
          /\ \E d \in Docs, ratio \in OpsRatioNums,
                use_pipeline \in BOOLEAN, loadOk \in BOOLEAN :
                \E cleaned \in CleanOutcomes(d) :
                    RequestHybrid(c, d, ratio, use_pipeline, loadOk, cleaned)
    \/ \E c \in Calls :
          /\ CanStart(c) /\ Quiet
          /\ \E d \in Docs, ratio \in OpsRatioNums,
                use_pipeline \in BOOLEAN, loadOk \in BOOLEAN :
                \E cleaned \in CleanOutcomes(d) :
                    RequestFormatted(c, d, ratio, use_pipeline, loadOk, cleaned)
    \/ \E c \in Calls :
          /\ calls[c].pc = "ext_wait"
          /\ \E loadOk \in LoadOutcomes(c) :
                ResumeExtractive(c, <<>>, TRUE, loadOk)
    \/ \E c \in Calls :
          /\ calls[c].pc = "abs_wait"
          /\ \E runOk \in BOOLEAN : ResumeAbstractive(c, runOk)

SpecReq == InitOps /\ [][NextReq]_vars

\* the model identifiers a request names
Models == {default_model, "t5-small"}

\* abstractive requests naming any model and hybrid requests for a document,
\* in flight together on one orchestrator
NextAbs ==
    \/ \E c \in Calls :
          /\ CanStart(c)
          /\ \E d \in Docs, model \in Models,
                use_pipeline \in BOOLEAN, loadOk \in BOOLEAN :
                StartAbstractiveModel(c, d, model, use_pipeline, loadOk)
    \/ \E c \in Calls :
          /\ CanStart(c)
          /\ \E d \in Docs, ratio \in OpsRatioNums,
                use_pipeline \in BOOLEAN, loadOk \in BOOLEAN :
                StartHybrid(c, d, ratio, use_pipeline, loadOk)
    \/ \E c \in Calls :
          /\ calls[c].pc = "ext_wait"
          /\ \E loadOk \in LoadOutcomes(c) :
                ResumeExtractive(c, <<>>, TRUE, loadOk)
    \/ \E c \in Calls :
          /\ calls[c].pc = "abs_wait"
          /\ \E runOk \in BOOLEAN : ResumeAbstractive(c, runOk)

SpecAbs == InitOps /\ [][NextAbs]_vars

-----------------------------------------------------------------------------
(* Properties *)

\* the calls of an operation that have handed control back to their caller
Done(op) == {c \in Calls : calls[c].op = op /\ calls[c].pc = "done"}
Returned(c) == calls[c].result # NoResult
Failed(c) == calls[c].error # None

\* no call was started after call c, no call but c was ever started
Latest(c) == \A x \in Calls : x > c => calls[x].pc = "idle"
OnlyCall(c) == \A x \in Calls \ {c} : calls[x].pc = "idle"

\* the artifact stores and the cache
stores == <<cleaning, extractive, abstractive, hybrid, formatted,
            similarity_cache>>

\* call c has written its override and not yet its restore
InWindow(c) ==
    calls[c].op = "hybrid" /\ calls[c].overrode /\ calls[c].pc # "done"

\* C1: when the abstractive step of the only hybrid_summary call made fails
\* after the override was written, the artifact's cleaned_text is, once the
\* call has handed control back, what it was before the call
C1_RestoredAfterFailure ==
    \A c \in Done("hybrid") :
        (calls[c].overrode /\ Failed(c) /\ OnlyCall(c))
        => cleaning[calls[c].filename].cleaned_text = calls[c].pre.cleaned_text

\* C2: after a hybrid_summary call that returned a result and ran with no
\* other call in flight, and before any later call starts, the whole
\* cleaned-text artifact (cleaned_text, sentence list) is what it was before
\* the call
C2_RestoredAfterSuccess ==
    \A c \in Done("hybrid") :
        (Returned(c) /\ calls[c].alone /\ Latest(c))
        => cleaning[calls[c].filename] = calls[c].pre

\* a hybrid call has returned a result after summarising an override that
\* differs from the original text, and the artifact is back to the original
C2_Witness ==
    \E c \in Done("hybrid") :
        /\ Returned(c) /\ calls[c].alone /\ Latest(c) /\ calls[c].overrode
        /\ calls[c].text # calls[c].pre.cleaned_text
        /\ cleaning[calls[c].filename] = calls[c].pre

\* C3: two hybrid_summary calls on one document are never both between
\* their override and their restore, and once both have returned a result
\* the artifact is what it was before the first of them started
C3_NoInterleaving ==
    \A c1, c2 \in Calls :
        (c1 < c2 /\ calls[c1].op = "hybrid" /\ calls[c2].op = "hybrid"
         /\ calls[c1].filename = calls[c2].filename)
        => /\ ~(InWindow(c1) /\ InWindow(c2))
           /\ (calls[c1].pc = "done" /\ calls[c2].pc = "done"
               /\ Returned(c1) /\ Returned(c2))
              => cleaning[calls[c1].filename] = calls[c1].pre

\* the corpus call c found, its size
Corpus(c) == calls[c].pre.sentences
Size(c) == Len(Corpus(c))
Supported == {"textrank", "tfidf", "lsa"}

C5_RatioRejected ==
    \A c \in Done("extractive") :
        (calls[c].summary_ratio \notin ValidRatioNums /\ calls[c].pre # NoFile)
        => calls[c].error = "ValueError" /\ ~Returned(c)

\* call c starts in this step as an extractive_summary call
StartsExtractive(c) ==
    calls[c].pc = "idle" /\ calls'[c].pc # "idle" /\ calls'[c].op = "extractive"

\* C6: an extractive_summary call on a document whose artifact holds an
\* empty sentence list ends in the step it starts in, with ValueError, no
\* result, no ranking begun, and every artifact and the cache unchanged
C6_EmptyCorpusRejected ==
    [][\A c \in Calls :
          (/\ StartsExtractive(c)
           /\ cleaning[calls'[c].filename] # NoFile
           /\ cleaning[calls'[c].filename].sentences = <<>>)
          => /\ calls'[c].pc = "done"
             /\ calls'[c].error = "ValueError"
             /\ calls'[c].result = NoResult
             /\ ~calls'[c].ranked
             /\ UNCHANGED stores]_vars

\* calls with every algorithm name have failed on an empty sentence list
C6_Witness ==
    \E c1, c2 \in Done("extractive") :
        /\ calls[c1].pre # NoFile /\ Corpus(c1) = <<>>
        /\ calls[c2].pre # NoFile /\ Corpus(c2) = <<>>
        /\ calls[c1].algorithm = "textrank" /\ calls[c1].error = "ValueError"
        /\ calls[c2].algorithm = "lsa" /\ calls[c2].error = "ValueError"

\* C7: an extractive_summary or hybrid_summary call on a document whose
\* cleaned-sentence artifact is absent ends in the step it starts in, with
\* FileNotFoundError and no result, whatever its other arguments, and leaves
\* every artifact and the similarity cache unchanged
C7_AbsentArtifactNotFound ==
    [][\A c \in Calls :
          (/\ calls[c].pc = "idle" /\ calls'[c].pc # "idle"
           /\ cleaning[calls'[c].filename] = NoFile)
          => /\ calls'[c].pc = "done"
             /\ calls'[c].error = "FileNotFoundError"
             /\ calls'[c].result = NoResult
             /\ ~calls'[c].ranked
             /\ UNCHANGED stores]_vars

\* an extractive call with an out-of-range ratio and an unknown algorithm
\* name, and a hybrid call, have both failed on an absent artifact
C7_Witness ==
    \E c1 \in Done("extractive"), c2 \in Done("hybrid") :
        /\ calls[c1].pre = NoFile /\ calls[c1].error = "FileNotFoundError"
        /\ calls[c1].algorithm \notin Supported
        /\ calls[c1].summary_ratio \notin ValidRatioNums
        /\ calls[c2].pre = NoFile /\ calls[c2].error = "FileNotFoundError"

\* C8: an extractive_summary call with an algorithm name that is not
\* textrank, tfidf or lsa, on a document whose artifact is present, ends in
\* the step it starts in, with ValueError, no result, no ranking begun, and
\* no artifact written
C8_UnknownAlgorithmRejected ==
    [][\A c \in Calls :
          (/\ StartsExtractive(c)
           /\ calls'[c].algorithm \notin Supported
           /\ cleaning[calls'[c].filename] # NoFile)
          => /\ calls'[c].pc = "done"
             /\ calls'[c].error = "ValueError"
             /\ calls'[c].result = NoResult
             /\ ~calls'[c].ranked
             /\ UNCHANGED stores]_vars

\* a call with an unknown algorithm name has failed on a non-empty corpus
C8_Witness ==
    \E c \in Done("extractive") :
        /\ calls[c].algorithm \notin Supported
        /\ calls[c].pre # NoFile /\ Size(c) > 0
        /\ calls[c].error = "ValueError" /\ ~calls[c].ranked

\* what a graph-algorithm call on the corpus returns when it computes the
\* similarity matrix itself
Recomputed(c) ==
    LET order == select(pagerank(compute_similarity(Corpus(c))), Size(c),
                        num_sentences_of(Size(c), calls[c].summary_ratio))
    IN [i \in 1..Len(order) |-> Corpus(c)[order[i]]] \o <<>>

\* C9: a graph-algorithm call with use_cache = true and a ratio in (0, 1],
\* on a corpus the vectorizer accepts, returns the sentences the same call would return with
\* the similarity matrix recomputed from its corpus
C9_CacheTransparent ==
    \A c \in Done("extractive") :
        (/\ calls[c].algorithm = "textrank" /\ calls[c].use_cache
         /\ calls[c].summary_ratio \in ValidRatioNums
         /\ calls[c].pre # NoFile /\ Size(c) > 0
         /\ Vocabulary(Corpus(c)) # {})
        => /\ Returned(c)
           /\ calls[c].result.summary_sentences = Recomputed(c)

\* sentence i goes before sentence j: a higher score, or the same score and
\* a lower index
Before(scores, i, j) ==
    scores[i] > scores[j] \/ (scores[i] = scores[j] /\ i < j)

\* order lists the first of the n sentences, at most k of them, by Before
IsSelection(order, scores, n, k) ==
    /\ Len(order) = Min(k, n)
    /\ \A a, b \in 1..Len(order) : a < b => Before(scores, order[a], order[b])
    /\ \A j \in 1..n :
          (\A a \in 1..Len(order) : order[a] # j)
          => \A a \in 1..Len(order) : Before(scores, order[a], j)

\* C10: the sentence list of a returned result is the first k sentences of
\* the corpus by descending score, equal scores in corpus order, in that
\* order; the summary text is those sentences joined; with ratio 1.0 every
\* sentence of the corpus is there exactly once
C10_StableSelection ==
    \A c \in Done("extractive") :
        Returned(c) =>
            LET r == calls[c].result
                n == Size(c)
            IN /\ \E order \in [1..Len(r.summary_sentences) -> 1..n] :
                     /\ IsSelection(order, calls[c].scores, n, calls[c].num_sentences)
                     /\ \A a \in 1..Len(order) :
                           r.summary_sentences[a] = Corpus(c)[order[a]]
                     /\ calls[c].summary_ratio = RatioDen
                        => \A j \in 1..n :
                              Cardinality({a \in 1..Len(order) : order[a] = j}) = 1
               /\ r.summary_text = Join(r.summary_sentences)

\* one call has returned two sentences of equal score in corpus order, and
\* another the whole corpus with its second sentence first
C10_Witness ==
    \E c1, c2 \in Done("extractive") :
        /\ Returned(c1) /\ Size(c1) = 2
        /\ calls[c1].scores[1] = calls[c1].scores[2]
        /\ Corpus(c1)[1] # Corpus(c1)[2]
        /\ calls[c1].result.summary_sentences = Corpus(c1)
        /\ Returned(c2) /\ Size(c2) = 2 /\ calls[c2].summary_ratio = RatioDen
        /\ Corpus(c2)[1] # Corpus(c2)[2]
        /\ calls[c2].result.summary_sentences = <<Corpus(c2)[2], Corpus(c2)[1]>>

-----------------------------------------------------------------------------
(* Properties of get_summary, abstractive_summary, formatted_hybrid_summary *)

\* the record a summarization operation persists for a document, by the
\* summary type it is asked for under
PersistedSummary(d, summary_type) ==
    CASE summary_type = "extractive" -> extractive[d]
      [] summary_type = "abstractive" -> abstractive[d]
      [] summary_type = "hybrid" -> hybrid[d]
      [] OTHER -> formatted[d]

\* call c starts in this step as a call of operation op
Starts(c, op) ==
    calls[c].pc = "idle" /\ calls'[c].pc # "idle" /\ calls'[c].op = op

\* C13: a get_summary call for a document and type of which no summary is
\* persisted fails with FileNotFoundError and returns nothing, and no
\* get_summary call, failed or not, changes an artifact or the cache
C13_GetSummaryNotFound ==
    [][\A c \in Calls :
          Starts(c, "get_summary")
          => /\ PersistedSummary(calls'[c].filename, calls'[c].summary_type) = NoFile
                => (calls'[c].error = "FileNotFoundError" /\ ~Returned(c)')
             /\ stores' = stores]_vars

\* a get_summary call has failed with FileNotFoundError for a type that is
\* not persisted while a summary of another type is, and nothing changed
C13_Witness ==
    \E c \in Done("get_summary") :
        /\ Latest(c) /\ calls[c].error = "FileNotFoundError"
        /\ PersistedSummary(calls[c].filename, calls[c].summary_type) = NoFile
        /\ \E t \in SummaryTypes : PersistedSummary(calls[c].filename, t) # NoFile
        /\ calls[c].before = Persisted

\* the operation that persists the summaries of a type
OperationOf(summary_type) ==
    IF summary_type = "formatted_hybrid" THEN "formatted" ELSE summary_type

\* C12: a get_summary call for a document and a type, made after the
\* operation of that type has returned a result for the document, returns
\* the record that operation persisted
C12_GetSummaryAfterSuccess ==
    \A c \in Done("get_summary") : \A o \in Calls :
        (o < c /\ calls[o].pc = "done" /\ Returned(o)
         /\ calls[o].op = OperationOf(calls[c].summary_type)
         /\ calls[o].filename = calls[c].filename)
        => /\ Returned(c)
           /\ calls[c].result = calls[o].result

\* call c takes this step; the record of the stage of an operation
Acts(c) ==
    calls'[c].pc # calls[c].pc \/ calls'[c].chunk_i # calls[c].chunk_i
OwnRecord(op, d) ==
    CASE op = "extractive" -> extractive[d]
      [] op = "abstractive" -> abstractive[d]
      [] OTHER -> hybrid[d]

\* C14: a step of an extractive_summary, abstractive_summary or
\* hybrid_summary call changes the record of the call's own stage only when
\* the call returns its result in that step, and then the record holds that
\* result in both of its files; a step in which the call raises or suspends
\* leaves the record as it was
C14_NoPartialRecord ==
    [][\A c \in Calls, d \in Docs :
          \A op \in {"extractive", "abstractive", "hybrid"} :
              (Acts(c) /\ calls'[c].op = op /\ calls'[c].filename = d)
              => IF Returned(c)'
                 THEN OwnRecord(op, d)' = [txt |-> calls'[c].result.summary_text,
                                           metadata |-> calls'[c].result]
                 ELSE OwnRecord(op, d)' = OwnRecord(op, d)]_vars

\* an abstractive_summary call has failed in its worker while a record of
\* an earlier call was persisted, and the record is the earlier one
C14_Witness ==
    \E c \in Done("abstractive") :
        /\ Latest(c) /\ calls[c].error = "RuntimeError"
        /\ calls[c].before.abstractive[calls[c].filename] # NoFile
        /\ abstractive = calls[c].before.abstractive

\* the error kinds of a collaborator that cannot be loaded: its libraries
\* are not installed, its model cannot be fetched
DependencyUnavailable == {"ImportError", "OSError"}

\* no collaborator was ever loaded; call c got as far as its abstractive step
Unloaded == summarization_pipeline = None /\ abstractive_model = None
ReachedCollaborator(c) ==
    CASE calls[c].op = "hybrid" -> calls[c].overrode
      [] calls[c].op \in {"abstractive", "formatted"} ->
           ~TORCH_AVAILABLE \/ calls[c].pre # NoFile
      [] OTHER -> FALSE

\* C15: an abstractive_summary, hybrid_summary or formatted_hybrid_summary
\* call that got as far as its abstractive step and ended while no
\* collaborator could be loaded has failed with ImportError or OSError
\* (ImportError when the libraries are missing) and has returned no result
C15_DependencyUnavailable ==
    \A c \in Calls :
        (calls[c].pc = "done" /\ ReachedCollaborator(c) /\ Unloaded)
        => /\ calls[c].error \in DependencyUnavailable
           /\ ~Returned(c)
           /\ ~TORCH_AVAILABLE => calls[c].error = "ImportError"

\* a hybrid_summary call has failed with ImportError after its override
C15_Witness ==
    \E c \in Done("hybrid") :
        /\ calls[c].overrode /\ Unloaded /\ ~TORCH_AVAILABLE
        /\ calls[c].error = "ImportError" /\ ~Returned(c)

\* C17: on the pipeline path and on the fallback path, no segment of fewer
\* than 50 characters is handed to the abstractive collaborator
C17_ShortSegmentsSkipped ==
    \A c \in Calls : \A i \in 1..Len(calls[c].sent) :
        ChunkChars(calls[c].sent[i]) >= MinChunkChars

\* calls c1 and c2 are calls of one operation with the same arguments
SameCall(c1, c2) ==
    /\ calls[c1].op = calls[c2].op
    /\ calls[c1].filename = calls[c2].filename
    /\ calls[c1].summary_ratio = calls[c2].summary_ratio
    /\ calls[c1].algorithm = calls[c2].algorithm
    /\ calls[c1].use_cache = calls[c2].use_cache
    /\ calls[c1].use_pipeline = calls[c2].use_pipeline

\* C20: when a summarization call has returned a result and the next call
\* is a call of the same operation with the same arguments, in which the
\* collaborator does not fail, the second call returns the same result and
\* leaves every persisted artifact as it was after the first
C20_Idempotent ==
    \A c1, c2 \in Calls :
        (c2 = c1 + 1 /\ calls[c1].pc = "done" /\ calls[c2].pc = "done"
         /\ calls[c1].op \in {"extractive", "abstractive", "hybrid", "formatted"}
         /\ SameCall(c1, c2) /\ Returned(c1)
         /\ calls[c2].error \notin {"RuntimeError", "OSError"})
        => /\ Returned(c2)
           /\ calls[c2].result = calls[c1].result
           /\ Persisted = calls[c2].before

\* the tokens of the chunks, in order
RECURSIVE ChunkTokens(_)
ChunkTokens(chunks) ==
    IF chunks = <<>> THEN <<>>
    ELSE Head(chunks).words \o ChunkTokens(Tail(chunks))

\* C16: on either path, every segment handed to the collaborator has at
\* most N words (1000 on the pipeline path, 1024 on the fallback path), the
\* segments hold the sentences of the text once each and in order, and the
\* summary is the outputs for the delegated segments joined in that order
C16_SegmentsWithinLimit ==
    probe.kind \in {"pipeline", "fallback"}
    => /\ \A i \in 1..Len(probe.sent) : WordCount(probe.sent[i].words) <= probe.size
       /\ ChunkTokens(probe.chunks) = probe.text
       /\ probe.summary = Join(List([i \in 1..Len(probe.sent) |->
                                       Summarize(probe.sent[i].words)]))

\* the title as the specification words it: the first line of 3 to 12
\* words, else the first sentence of the abstract, else "Untitled"
TitleInWords(cleaned_text, final_abstract) ==
    LET lines == StrippedNonEmpty(SplitOn(cleaned_text, Newline, <<>>))
        sentences == AbstractSentences(final_abstract)
        fits == {i \in 1..Len(lines) :
                    3 <= WordCount(lines[i]) /\ WordCount(lines[i]) <= 12}
    IN IF fits # {} THEN Text(lines[CHOOSE i \in fits : \A j \in fits : i <= j])
       ELSE IF sentences # <<>> THEN Text(sentences[1])
       ELSE Literal("Untitled")

\* C18: the title is the first line of the scrubbed text with 3 to 12
\* words, else the first sentence of the abstract, else "Untitled"; the
\* objective is the second and third sentences of the abstract joined, else
\* "Objective not detected"
C18_TitleAndObjective ==
    probe.kind = "layout"
    => /\ probe.title = TitleInWords(probe.cleaned_text, probe.final_abstract)
       /\ LET sentences == AbstractSentences(probe.final_abstract)
          IN probe.objective =
                IF Len(sentences) >= 2
                THEN Text(Join(SubSeq(sentences, 2, Min(3, Len(sentences)))))
                ELSE Literal("Objective not detected")

\* C19: under each known heading found in the scrubbed text the section
\* summary holds the first two sentences from the heading on; when no known
\* heading is found the section summary is the four buckets of the quartile
\* split of the text's sentences and nothing else
C19_SectionSummary ==
    probe.kind = "layout"
    => LET found == {sec \in resume_sections : Find(probe.cleaned_text, <<sec>>) > 0}
       IN /\ \A sec \in found :
                /\ Text(<<sec>>) \in DOMAIN probe.section_summary
                /\ probe.section_summary[Text(<<sec>>)] =
                     Text(JoinFirst(split_into_sentences(
                              SubSeq(probe.cleaned_text,
                                     Find(probe.cleaned_text, <<sec>>),
                                     Len(probe.cleaned_text))), 2))
          /\ found = {} => probe.section_summary = AutoSections(probe.cleaned_text)

\* the requests that have ended; the first attempt of request c failed
\* because the cleaned-text artifact was missing
Ended == {c \in Calls : calls[c].pc = "done" /\ calls[c].attempts > 0}
FirstAttemptMissed(c) ==
    /\ calls[c].pre = NoFile
    /\ calls[c].op \in {"abstractive", "formatted"} => TORCH_AVAILABLE
NotFoundStatus == 404

\* C11: a summarize request whose first attempt failed because the artifact
\* was missing has, when it ends, invoked the cleaning once and made two
\* attempts, and when the artifact is still missing it ends with NotFound
C11_CleanOnceRetryOnce ==
    \A c \in Ended :
        FirstAttemptMissed(c)
        => /\ calls[c].cleanings = 1
           /\ calls[c].attempts = 2
           /\ cleaning[calls[c].filename] = NoFile
              => (calls[c].error = "FileNotFoundError"
                  /\ status_code(calls[c]) = NotFoundStatus)

-----------------------------------------------------------------------------
(* Properties of the frame of formatted_hybrid_summary and hybrid_summary *)

\* C25: once a formatted_hybrid_summary call that was the only call made
\* has handed control back, with a result or with an error, the cleaned-text
\* artifact of its document is what it was before the call
C25_ArtifactUnchanged ==
    \A c \in Done("formatted") :
        OnlyCall(c) => cleaning[calls[c].filename] = calls[c].pre

\* C29: once a hybrid_summary call has handed control back, and before any
\* later call starts, the extractive-summary and abstractive-summary records
\* of every document (flat-text file and metadata) are what they were before
\* the call
C29_OnlyHybridRecord ==
    \A c \in Done("hybrid") :
        Latest(c)
        => /\ extractive = calls[c].before.extractive
           /\ abstractive = calls[c].before.abstractive

\* the extractive summary text of call c: the selected sentences, joined
ExtractiveText(c) ==
    LET k == calls[c]
        order == select(k.scores, Len(k.sentences), k.num_sentences)
    IN Join(List([i \in 1..Len(order) |-> k.sentences[order[i]]]))

\* the segments the abstractive step of call c hands to the collaborator
\* when it summarises text
SegmentsOf(c, text) ==
    IF calls[c].use_pipeline THEN PipelineSent(text) ELSE ChunkedSent(text)

\* C24: in a hybrid_summary call that runs with no other call in flight, the
\* extractive step reads the artifact as it was before the call; while the
\* override is in place the artifact's text is the extractive summary text
\* and no hybrid record is written yet; the result is the abstractive summary
\* of the extractive summary text; and when the hybrid record is there the
\* artifact is back to what it was before the call
C24_HybridOrder ==
    \A c \in Calls :
        (calls[c].op = "hybrid" /\ calls[c].alone /\ calls[c].overrode)
        => LET k == calls[c]
               d == k.filename
           IN /\ k.sentences = k.pre.sentences
              /\ k.cleaning_data = k.pre
              /\ k.original_cleaned_text = k.pre.cleaned_text
              /\ InWindow(c)
                 => /\ cleaning[d].cleaned_text = ExtractiveText(c)
                    /\ k.text = ExtractiveText(c)
                    /\ hybrid = k.before.hybrid
              /\ (k.pc = "done" /\ Returned(c))
                 => /\ k.text = ExtractiveText(c)
                    /\ k.sent = SegmentsOf(c, ExtractiveText(c))
                    /\ k.result.summary_text =
                          Join(List([i \in 1..Len(k.sent) |->
                                        Summarize(k.sent[i].words)]))
                    /\ Latest(c)
                       => /\ cleaning[d] = k.pre
                          /\ hybrid[d] = [txt |-> k.result.summary_text,
                                          metadata |-> k.result]

\* a hybrid call that ran alone has returned a non-empty summary of an
\* extractive summary text that is shorter than the document's text, its
\* record is written and the artifact holds the document's text again
C24_Witness ==
    \E c \in Done("hybrid") :
        /\ Returned(c) /\ calls[c].alone /\ Latest(c) /\ calls[c].overrode
        /\ calls[c].text = ExtractiveText(c)
        /\ Len(calls[c].text) < Len(calls[c].pre.cleaned_text)
        /\ calls[c].result.summary_text # <<>>
        /\ hybrid[calls[c].filename].metadata = calls[c].result
        /\ cleaning[calls[c].filename] = calls[c].pre

-----------------------------------------------------------------------------
(* Properties of abstractive_summary among other calls *)

\* C28: the text an abstractive_summary call reads from the artifact of a
\* document is the document's original cleaned text, the one a hybrid call
\* on the document saved before its override, whenever the call runs: before
\* the hybrid call, between its override and its restore, or after it
C28_AbstractiveReadsOriginal ==
    \A c, h \in Calls :
        (/\ calls[c].op = "abstractive" /\ calls[h].op = "hybrid"
         /\ calls[c].filename = calls[h].filename
         /\ calls[h].overrode /\ ~Failed(h)
         /\ TORCH_AVAILABLE /\ calls[c].pre # NoFile)
        => calls[c].text = calls[h].original_cleaned_text

\* the model that made the summaries of the persisted abstractive record of
\* document d: the loaded pipeline or the loaded fallback model, neither of
\* which is ever loaded again
ProducerOf(d) ==
    IF abstractive[d].metadata.processing_method = "pipeline"
    THEN summarization_pipeline ELSE abstractive_model

\* C30: the model field of every persisted abstractive-summary record with
\* a summary in it names the model that produced the summary
C30_RecordedModel ==
    \A d \in Docs :
        (abstractive[d] # NoFile /\ abstractive[d].metadata.summary_text # <<>>)
        => abstractive[d].metadata.model = ProducerOf(d)

-----------------------------------------------------------------------------
(* Properties of the similarity cache *)

\* C26: the cache is empty at construction; no step removes a key; a step of
\* an extractive_summary call with use_cache = false, or with the tfidf or
\* lsa algorithm, leaves the cache as it is, and what a graph-algorithm call
\* with use_cache = false returns is computed from its corpus alone; a step
\* of a graph-algorithm call with use_cache = true adds no key but the key of
\* the call's corpus
C26_CacheGrowsByOwnKey ==
    /\ similarity_cache = <<>>
    /\ [][/\ DOMAIN similarity_cache \subseteq DOMAIN similarity_cache'
          /\ \A c \in Calls :
                (Acts(c) /\ calls'[c].op = "extractive")
                => IF calls'[c].algorithm = "textrank" /\ calls'[c].use_cache
                   THEN DOMAIN similarity_cache' \subseteq
                            DOMAIN similarity_cache
                                \cup {cache_key(calls'[c].sentences)}
                   ELSE similarity_cache' = similarity_cache]_vars
    /\ [](\A c \in Done("extractive") :
             (calls[c].algorithm = "textrank" /\ ~calls[c].use_cache
              /\ Returned(c))
             => calls[c].result.summary_sentences = Recomputed(c))

\* the cache holds the key of one corpus and not the key of the corpus of a
\* later graph-algorithm call that ran with use_cache = false and returned
C26_Witness ==
    \E c1, c2 \in Done("extractive") :
        /\ c1 < c2 /\ Returned(c1) /\ Returned(c2)
        /\ calls[c1].algorithm = "textrank" /\ calls[c1].use_cache
        /\ calls[c2].algorithm = "textrank" /\ ~calls[c2].use_cache
        /\ cache_key(Corpus(c1)) # cache_key(Corpus(c2))
        /\ DOMAIN similarity_cache = {cache_key(Corpus(c1))}

\* the result of an extractive_summary call that computes the similarity
\* matrix of its corpus itself, as a call with no other call in flight does
SequentialResult(c) ==
    [summary_text |-> Join(Recomputed(c)),
     summary_sentences |-> Recomputed(c),
     original_sentences |-> Size(c),
     compression_ratio |-> [num |-> Len(Recomputed(c)), den |-> Size(c)],
     algorithm |-> calls[c].algorithm,
     summary_ratio |-> calls[c].summary_ratio]

\* both are graph-algorithm extractive_summary calls with use_cache = true
\* on one document, and c2 started while c1 was waiting for its matrix: both
\* missed the cache
BothMiss(c1, c2) ==
    /\ c1 < c2
    /\ \A c \in {c1, c2} :
          /\ calls[c].op = "extractive" /\ calls[c].algorithm = "textrank"
          /\ calls[c].use_cache /\ calls[c].pc # "idle" /\ ~calls[c].alone
          /\ calls[c].pre # NoFile /\ Size(c) > 0
          /\ Vocabulary(Corpus(c)) # {}
    /\ calls[c1].filename = calls[c2].filename

\* C27: of two graph-algorithm calls with use_cache = true that both missed
\* the cache on one corpus, each that is done has stored the matrix of the
\* corpus under the corpus's key and returned the result of a sequential
\* run, and when both are done the cache holds that one entry and no other
C27_MissRaceHarmless ==
    \A c1, c2 \in Calls :
        BothMiss(c1, c2)
        => LET key == cache_key(Corpus(c1))
           IN /\ Corpus(c1) = Corpus(c2)
              /\ \A c \in {c1, c2} :
                    calls[c].pc = "done"
                    => /\ Returned(c)
                       /\ calls[c].result = SequentialResult(c)
                       /\ key \in DOMAIN similarity_cache
                       /\ similarity_cache[key] = compute_similarity(Corpus(c))
              /\ (calls[c1].pc = "done" /\ calls[c2].pc = "done")
                 => DOMAIN similarity_cache = {key}

\* two such calls on a corpus of two different sentences are done, both
\* returned, with different numbers of sentences, and the cache holds the
\* one entry
C27_Witness ==
    \E c1, c2 \in Done("extractive") :
        /\ BothMiss(c1, c2) /\ Returned(c1) /\ Returned(c2)
        /\ Size(c1) = 2 /\ Corpus(c1)[1] # Corpus(c1)[2]
        /\ Len(calls[c1].result.summary_sentences)
              # Len(calls[c2].result.summary_sentences)
        /\ DOMAIN similarity_cache = {cache_key(Corpus(c1))}

-----------------------------------------------------------------------------
(* Properties of the graph ranker *)

\* the ranker is at work on a matrix; it has returned
Ranking == probe.kind = "pagerank"
Ranked == Ranking /\ probe.pc = "done"

\* every component of b is within atol + rtol * |b| of a's
Within(a, b, unit) ==
    \A i \in 1..Len(a) :
        /\ Abs(a[i] - b[i]) <= 2000
        /\ 1000000 * Abs(a[i] - b[i]) <= unit + 10 * Abs(b[i])

\* every component of b differs from a's by less than atol = 1e-6
WithinAtol(a, b, unit) ==
    \A i \in 1..Len(a) :
        /\ Abs(a[i] - b[i]) <= 2000
        /\ 1000000 * Abs(a[i] - b[i]) < unit

\* C22 as the specification words it: the ranker makes at most max_iter
\* passes; it leaves the loop early only in a pass in which every score
\* changed by less than 1e-6; and whether it converged or not it returns the
\* last vector it computed
C22_StopsBelowToleranceReturnsLast ==
    Ranking
    => /\ probe.iter <= max_iter
       /\ Ranked
          => /\ probe.result = probe.new_scores
             /\ IF probe.broke
                THEN WithinAtol(probe.scores, probe.new_scores, probe.unit)
                ELSE probe.iter = max_iter

\* C22: the ranker makes at most max_iter passes; it leaves the loop in the
\* first pass whose vector is within 1e-6 + 1e-5 * |new score| of the one
\* before, and then returns the vector before, not the one it computed last;
\* when no pass is that close it returns, after max_iter passes and with no
\* error, the vector it computed last
C22_StopsWhenCloseReturnsScores ==
    Ranking
    => /\ probe.iter <= max_iter
       /\ probe.pc = "loop"
          => /\ probe.iter < max_iter
             /\ probe.iter > 0 => ~Within(probe.prev, probe.scores, probe.unit)
       /\ Ranked
          => IF probe.broke
             THEN /\ Within(probe.scores, probe.new_scores, probe.unit)
                  /\ probe.result = probe.scores
                  /\ probe.iter > 1 => probe.prev # probe.scores
             ELSE /\ probe.iter = max_iter
                  /\ ~Within(probe.prev, probe.scores, probe.unit)
                  /\ probe.result = probe.new_scores

\* the ranker has returned after max_iter passes none of which was close
C22_Witness ==
    /\ Ranked /\ ~probe.broke /\ probe.iter = max_iter
    /\ probe.result = probe.new_scores /\ probe.result # <<>>

\* every row of m sums to 1
RowStochastic(m, munit) == \A i \in 1..Len(m) : SumSeq(m[i]) = munit

\* what the truncations of the fixed-point arithmetic can take from the sum
\* of n scores: below 2 units a score in each pass, damped by 0.85 a pass
Slack(n) == 14 * n

\* C23: on a row-stochastic matrix the score vector starts with 1/n in every
\* component, and the components of the vector of every pass sum to 1 (up to
\* the truncations of the arithmetic)
C23_ScoresSumToOne ==
    (Ranking /\ RowStochastic(probe.m, probe.munit))
    => LET n == Len(probe.m)
       IN /\ probe.iter = 0
             => \A i \in 1..n : probe.scores[i] = probe.unit \div n
          /\ Abs(SumSeq(probe.scores) - probe.unit) <= Slack(n)
          /\ probe.iter > 0
             => Abs(SumSeq(probe.new_scores) - probe.unit) <= Slack(n)

\* after several passes on a row-stochastic matrix the scores are no longer
\* uniform and still sum to 1
C23_Witness ==
    /\ Ranking /\ RowStochastic(probe.m, probe.munit)
    /\ Len(probe.m) = 2 /\ probe.iter >= 3
    /\ probe.scores[1] # probe.scores[2]
    /\ Abs(SumSeq(probe.scores) - probe.unit) <= Slack(2)

-----------------------------------------------------------------------------
(* Properties of the worker pool *)

Pooled == probe.kind = "pool"

\* C21: whatever the algorithm, none of the CPU-bound steps of
\* extractive_summary (vectorization, similarity matrix, score computation)
\* runs on the orchestrating thread, every request that has returned had its
\* score computation run by a task of the pool, and at most max_workers = 4
\* tasks run at once however many requests are in flight
C21_RankingOnPoolOnly ==
    Pooled
    => /\ \A r \in Requests :
            /\ probe.request[r].loop_steps = {}
            /\ probe.request[r].pc = "returned"
               => "scores" \in probe.request[r].pool_steps
       /\ Cardinality(probe.running) <= max_workers

====
